---------------------------- MODULE Spec2Model ----------------------------
(***************************************************************************)
(* Model of the channel mirroring userbot (src/mirror+.py): the flood-wait *)
(* retry loop MessageProcessor._handle_flood_wait, the message router      *)
(* MessageProcessor.process_message with ContentFilter, the link rewriting *)
(* engine LinkReplacer, the service message handler, and the orchestrator  *)
(* ChannelMirrorBot with its background tasks and the restart of clients.  *)
(*                                                                         *)
(* Durations are kept in tenths of a second so that the multiplier 1.2 is  *)
(* the integer 12 and min(e.value * multiplier, 300) is exact.             *)
(*                                                                         *)
(* A text is a sequence of tokens.  Each token stands for a fixed piece of *)
(* text; the regular expressions of LinkReplacer and the substring tests   *)
(* of ContentFilter and _extract_param_name are evaluated token by token.  *)
(***************************************************************************)
EXTENDS Integers, Sequences, FiniteSets, TLC

VARIABLES
    config,           \* the configuration document read through config.get
    call,             \* per event: the state of its _handle_flood_wait call
    ev,               \* per event: the state of its process_message call
    processed_count,  \* MessageProcessor.processed_count
    messages_db,      \* rows of the messages table (Database.log_message)
    errors_db,        \* rows of the errors table (Database.log_error)
    notifications,    \* error notifications handed to NotificationService
    sends,            \* every outbound send call made, in order
    inbox,            \* the inbound messages the listener delivers, in order
    rw,               \* one LinkReplacer.replace_links call: input and result
    svc,              \* per event: the state of its handle_service_message call
    bot               \* ChannelMirrorBot, ClientManager and the background tasks

vars == <<config, call, ev, processed_count, messages_db, errors_db,
          notifications, sends, inbox, rw, svc, bot>>

sideVars == <<svc, bot>>

routerVars ==
    <<ev, processed_count, messages_db, errors_db, notifications, sends, inbox>>

----------------------------------------------------------------------------
(* Bounds of the model.                                                    *)

\* largest delays.retry_attempts explored
MaxRetryAttempts == 3
\* number of inbound events routed in one behaviour
MaxEvents == 2
\* number of times each background task is followed through its loop
MaxWakes == 2
\* number of polls of the voice monitor followed
MaxPolls == 3
\* longest text, in tokens, of the exhaustive inputs of replace_links
MaxTextLen == 4

Events == 1..MaxEvents

Min(a, b) == IF a <= b THEN a ELSE b

RECURSIVE Pow2(_)
Pow2(n) == IF n = 0 THEN 1 ELSE 2 * Pow2(n - 1)

----------------------------------------------------------------------------
(* The retry dispatcher: MessageProcessor._handle_flood_wait.              *)

\* ceiling of one FloodWait sleep, in seconds: min(e.value * multiplier, 300)
MaxWaitSeconds == 300

\* delays.flood_wait_multiplier, in tenths (12 is the default 1.2)
Multipliers == {5, 12, 20}

\* FloodWait.value, the seconds the server asks for
FloodValues == {10, 250, 400}

\* the except clause (MessageTooLong, MediaEmpty, FileReferenceExpired)
NonRecoverable == {"MessageTooLong", "MediaEmpty", "FileReferenceExpired"}

\* what one await func(*args, **kwargs) can do: return a Message, or raise
Outcomes ==
    {[exc |-> "none", value |-> 0]}
    \cup {[exc |-> "FloodWait", value |-> v] : v \in FloodValues}
    \cup {[exc |-> k, value |-> 0] : k \in NonRecoverable}
    \cup {[exc |-> "Exception", value |-> 0]}

Last(s) == s[Len(s)]

\* the call has ended: it has returned, or raised to its caller
Ended(c) == c.pc \in {"returned", "raised"}

\* no _handle_flood_wait call has been made for the event
NoCall ==
    [pc |-> "none", attempt |-> 0, invocations |-> 0,
     waits |-> <<>>, hist |-> <<>>, result |-> "None"]

\* entry of _handle_flood_wait: range(retry_attempts) may be empty, and then
\* the function falls through to return None without calling func
CallStart(cfg) ==
    [NoCall EXCEPT !.pc = IF cfg.retry_attempts > 0 THEN "attempting" ELSE "returned"]

\* mutant: the ceiling of 300 seconds is forgotten
FloodWaitTimeNoCeiling(value, cfg) == value * cfg.multiplier

\* wait_time = min(e.value * multiplier, 300), in tenths of a second
FloodWaitTime(value, cfg) == Min(value * cfg.multiplier, MaxWaitSeconds * 10)

\* mutant: a fixed one-second pause instead of the exponential one
ErrorWaitTimeFixed(attempt) == 10

\* await asyncio.sleep(2 ** attempt), in tenths of a second
ErrorWaitTime(attempt) == 10 * Pow2(attempt)

\* mutant: the result of func is kept but not returned, the loop goes on
CallInvokeNoReturn(c, o, cfg) ==
    LET c1 == [c EXCEPT !.invocations = @ + 1, !.hist = Append(@, o)]
    IN  CASE o.exc = "none" ->
                IF c.attempt + 1 < cfg.retry_attempts
                THEN [c1 EXCEPT !.pc = "attempting", !.attempt = @ + 1,
                                !.result = "Message"]
                ELSE [c1 EXCEPT !.pc = "returned", !.result = "Message"]
          [] o.exc = "FloodWait" ->
                [c1 EXCEPT !.pc = "waiting",
                           !.waits = Append(@, [cause |-> "FloodWait",
                                                value |-> o.value,
                                                dur |-> FloodWaitTime(o.value, cfg)])]
          [] o.exc \in NonRecoverable ->
                [c1 EXCEPT !.pc = "returned", !.result = "None"]
          [] OTHER ->
                IF c.attempt = cfg.retry_attempts - 1
                THEN [c1 EXCEPT !.pc = "raised"]
                ELSE [c1 EXCEPT !.pc = "waiting",
                                !.waits = Append(@, [cause |-> "Exception",
                                                     value |-> 0,
                                                     dur |-> ErrorWaitTime(c.attempt)])]

\* mutant: the except clause for the unrecoverable errors is missing, so they
\* fall to the generic handler and are retried
CallInvokeNoBreak(c, o, cfg) ==
    LET c1 == [c EXCEPT !.invocations = @ + 1, !.hist = Append(@, o)]
    IN  CASE o.exc = "none" ->
                [c1 EXCEPT !.pc = "returned", !.result = "Message"]
          [] o.exc = "FloodWait" ->
                [c1 EXCEPT !.pc = "waiting",
                           !.waits = Append(@, [cause |-> "FloodWait",
                                                value |-> o.value,
                                                dur |-> FloodWaitTime(o.value, cfg)])]
          [] OTHER ->
                IF c.attempt = cfg.retry_attempts - 1
                THEN [c1 EXCEPT !.pc = "raised"]
                ELSE [c1 EXCEPT !.pc = "waiting",
                                !.waits = Append(@, [cause |-> "Exception",
                                                     value |-> 0,
                                                     dur |-> ErrorWaitTime(c.attempt)])]

\* mutant: no sleep after a FloodWait on the last attempt
CallInvokeNoFinalSleep(c, o, cfg) ==
    LET c1 == [c EXCEPT !.invocations = @ + 1, !.hist = Append(@, o)]
    IN  CASE o.exc = "none" ->
                [c1 EXCEPT !.pc = "returned", !.result = "Message"]
          [] o.exc = "FloodWait" ->
                IF c.attempt = cfg.retry_attempts - 1
                THEN [c1 EXCEPT !.pc = "returned", !.result = "None"]
                ELSE [c1 EXCEPT !.pc = "waiting",
                           !.waits = Append(@, [cause |-> "FloodWait",
                                                value |-> o.value,
                                                dur |-> FloodWaitTime(o.value, cfg)])]
          [] o.exc \in NonRecoverable ->
                [c1 EXCEPT !.pc = "returned", !.result = "None"]
          [] OTHER ->
                IF c.attempt = cfg.retry_attempts - 1
                THEN [c1 EXCEPT !.pc = "raised"]
                ELSE [c1 EXCEPT !.pc = "waiting",
                                !.waits = Append(@, [cause |-> "Exception",
                                                     value |-> 0,
                                                     dur |-> ErrorWaitTime(c.attempt)])]

\* one pass through the try statement of the loop body with outcome o of func
CallInvoke(c, o, cfg) ==
    LET c1 == [c EXCEPT !.invocations = @ + 1, !.hist = Append(@, o)]
    IN  CASE o.exc = "none" ->
                [c1 EXCEPT !.pc = "returned", !.result = "Message"]
          [] o.exc = "FloodWait" ->
                [c1 EXCEPT !.pc = "waiting",
                           !.waits = Append(@, [cause |-> "FloodWait",
                                                value |-> o.value,
                                                dur |-> FloodWaitTime(o.value, cfg)])]
          [] o.exc \in NonRecoverable ->
                [c1 EXCEPT !.pc = "returned", !.result = "None"]
          [] OTHER ->
                IF c.attempt = cfg.retry_attempts - 1
                THEN [c1 EXCEPT !.pc = "raised"]
                ELSE [c1 EXCEPT !.pc = "waiting",
                                !.waits = Append(@, [cause |-> "Exception",
                                                     value |-> 0,
                                                     dur |-> ErrorWaitTime(c.attempt)])]

\* mutant: a while True loop, the attempts are never exhausted
CallResumeUnbounded(c, cfg) ==
    [c EXCEPT !.pc = "attempting", !.attempt = @ + 1]

\* asyncio.sleep has returned: the for loop takes its next attempt, or is
\* exhausted and the function returns None
CallResume(c, cfg) ==
    IF c.attempt + 1 < cfg.retry_attempts
    THEN [c EXCEPT !.pc = "attempting", !.attempt = @ + 1]
    ELSE [c EXCEPT !.pc = "returned", !.attempt = @ + 1, !.result = "None"]

----------------------------------------------------------------------------
(* Texts.  A token stands for the piece of text of its own name.  " "      *)
(* stands for any character of the class [\s)\]], "x" for any other        *)
(* character without a role, "CODE" for the configured invitation code.    *)

Tokens ==
    {"http://", "x", " ", "?", "&", "invitationCode=", "invite=", "ref=",
     "INVITE=", "REF=", "CODE", "bad", "BAD"}

\* str.lower() of one token
LowerTok(t) ==
    CASE t = "invitationCode=" -> "invitationcode="
      [] t = "INVITE=" -> "invite="
      [] t = "REF=" -> "ref="
      [] t = "BAD" -> "bad"
      [] OTHER -> t

\* len() of one token, in characters ("CODE" is the 12 digits of the default)
TokLen(t) ==
    CASE t \in {"http://", "invite=", "INVITE="} -> 7
      [] t \in {"invitationCode=", "invitationcode="} -> 15
      [] t \in {"ref=", "REF="} -> 4
      [] t \in {"bad", "BAD"} -> 3
      [] t = "CODE" -> 12
      [] OTHER -> 1

\* str.lower()
Lower(text) == [i \in 1..Len(text) |-> LowerTok(text[i])]

RECURSIVE StrLen(_)
\* len()
StrLen(text) == IF text = <<>> THEN 0 ELSE TokLen(Head(text)) + StrLen(Tail(text))

RECURSIVE LStrip(_)
LStrip(text) ==
    IF text # <<>> /\ Head(text) = " " THEN LStrip(Tail(text)) ELSE text

RECURSIVE RStrip(_)
RStrip(text) ==
    IF text # <<>> /\ text[Len(text)] = " "
    THEN RStrip(SubSeq(text, 1, Len(text) - 1))
    ELSE text

\* str.strip()
Strip(text) == RStrip(LStrip(text))

\* word in text: the substring test, at the position pos and after
RECURSIVE FindFrom(_, _, _)
FindFrom(word, text, pos) ==
    IF pos + Len(word) - 1 > Len(text) THEN FALSE
    ELSE IF SubSeq(text, pos, pos + Len(word) - 1) = word THEN TRUE
    ELSE FindFrom(word, text, pos + 1)

\* word in text
Contains(text, word) == FindFrom(word, text, 1)

\* text[:n]: the longest prefix of whole tokens of at most n characters
RECURSIVE Truncate(_, _)
Truncate(text, n) ==
    IF text = <<>> \/ TokLen(Head(text)) > n THEN <<>>
    ELSE <<Head(text)>> \o Truncate(Tail(text), n - TokLen(Head(text)))

----------------------------------------------------------------------------
(* LinkReplacer: the three patterns                                        *)
(*   (https?://[^\s)\]]*?)([?&])NAME=[^&\s)\]]*      with re.IGNORECASE    *)
(* for NAME = invitationCode, invite, ref, and replace_links.              *)

\* the parameter name each pattern of self.patterns looks for, in order
PatternNames == <<"invitationCode=", "invite=", "ref=">>

\* replacement.invitation_code
InvitationCode == "CODE"

\* None, as the text handed to replace_links
NoneText == <<"None">>

\* https?://
IsScheme(t) == t = "http://"
\* mutant: the class of group 1 also takes white space and brackets
IsUrlCharMutantAny(t) == TRUE
\* [^\s)\]]
IsUrlChar(t) == t # " "
\* [?&]
IsSeparator(t) == t \in {"?", "&"}
\* [^&\s)\]]
IsValueChar(t) == t \notin {" ", "&"}
\* mutant: the pattern compiled without re.IGNORECASE
IsNameMutantCaseSensitive(t, name) == t = name
\* NAME= under re.IGNORECASE
IsName(t, name) == LowerTok(t) = LowerTok(name)

\* the lazy group 1 and the separator: the first j >= from such that
\* text[j] is [?&] followed by NAME=, with only URL characters before it;
\* 0 when the pattern cannot match from this start
RECURSIVE FindSeparator(_, _, _)
FindSeparator(text, name, j) ==
    IF j + 1 > Len(text) \/ ~IsUrlChar(text[j]) THEN 0
    ELSE IF IsSeparator(text[j]) /\ IsName(text[j + 1], name) THEN j
    ELSE FindSeparator(text, name, j + 1)

\* the greedy value [^&\s)\]]*: the last position it takes, from k on
RECURSIVE ValueEnd(_, _)
ValueEnd(text, k) ==
    IF k <= Len(text) /\ IsValueChar(text[k]) THEN ValueEnd(text, k + 1) ELSE k - 1

\* pattern.match at position i: [sep, end] of the match, or sep = 0
MatchAt(text, name, i) ==
    LET j == IF IsScheme(text[i]) THEN FindSeparator(text, name, i + 1) ELSE 0
    IN  [sep |-> j, end |-> IF j = 0 THEN 0 ELSE ValueEnd(text, j + 2)]

\* mutant: the substring tests made on the lower-cased match
_extract_param_nameMutantCaseFolded(matched) ==
    IF \E i \in 1..Len(matched) : LowerTok(matched[i]) = "invitationcode="
        THEN "invitationCode="
    ELSE IF \E i \in 1..Len(matched) : LowerTok(matched[i]) = "invite=" THEN "invite="
    ELSE IF \E i \in 1..Len(matched) : LowerTok(matched[i]) = "ref=" THEN "ref="
    ELSE "invitationCode="

\* the name written back, with its "=": the first of invitationCode, invite,
\* ref found in the matched text by a case-sensitive substring test
_extract_param_name(matched) ==
    IF \E i \in 1..Len(matched) : matched[i] = "invitationCode=" THEN "invitationCode="
    ELSE IF \E i \in 1..Len(matched) : matched[i] = "invite=" THEN "invite="
    ELSE IF \E i \in 1..Len(matched) : matched[i] = "ref=" THEN "ref="
    ELSE "invitationCode="

\* replacer(match): f"{url_part}{separator}{param_name}={self.invitation_code}"
replacer(text, i, m) ==
    SubSeq(text, i, m.sep - 1) \o <<text[m.sep]>>
        \o <<_extract_param_name(SubSeq(text, i, m.end)), InvitationCode>>

\* pattern.sub(replacer, text) from position i on: leftmost matches that do
\* not overlap; the text after a match is scanned from the end of the match
RECURSIVE PatternSub(_, _, _)
PatternSub(text, name, i) ==
    IF i > Len(text) THEN [text |-> <<>>, count |-> 0]
    ELSE LET m == MatchAt(text, name, i)
         IN  IF m.sep = 0
             THEN LET r == PatternSub(text, name, i + 1)
                  IN  [text |-> <<text[i]>> \o r.text, count |-> r.count]
             ELSE LET r == PatternSub(text, name, m.end + 1)
                  IN  [text |-> replacer(text, i, m) \o r.text, count |-> r.count + 1]

\* mutant: the count of the last pattern only, not the running total
RECURSIVE ApplyPatternsMutantLastCount(_, _, _)
ApplyPatternsMutantLastCount(text, total, p) ==
    IF p > Len(PatternNames) THEN [text |-> text, count |-> total]
    ELSE LET r == PatternSub(text, PatternNames[p], 1)
         IN  ApplyPatternsMutantLastCount(r.text, r.count, p + 1)

\* the for loop over self.patterns, from pattern p on
RECURSIVE ApplyPatterns(_, _, _)
ApplyPatterns(text, total, p) ==
    IF p > Len(PatternNames) THEN [text |-> text, count |-> total]
    ELSE LET r == PatternSub(text, PatternNames[p], 1)
         IN  ApplyPatterns(r.text, total + r.count, p + 1)

replace_links(text) ==
    IF text = NoneText \/ text = <<>> THEN [text |-> text, count |-> 0]
    ELSE ApplyPatterns(text, 0, 1)

----------------------------------------------------------------------------
(* Inbound messages (pyrogram Message), as far as the program reads them.  *)

\* content kinds: the attribute of Message that is set; "none" is a message
\* with no media and no service part (a text message when text is not empty)
MediaKinds ==
    {"photo", "video", "animation", "document", "audio", "voice",
     "sticker", "poll", "location", "contact"}
CaptionKinds == {"photo", "video", "animation", "document", "audio", "voice"}
SizedKinds == {"photo", "video", "document", "audio", "voice"}
Kinds == MediaKinds \cup {"none", "service"}

\* chats the listener can deliver from: one mapped by user name, one mapped
\* by numeric id (it has no user name), one with no entry in the mapping
Chats ==
    {[username |-> "src", id |-> "-1001"],
     [username |-> "", id |-> "-1002"],
     [username |-> "zzz", id |-> "-1003"]}

\* f"@{message.chat.username}"
At(username) ==
    CASE username = "src" -> "@src"
      [] username = "zzz" -> "@zzz"
      [] OTHER -> "@"

\* source_channel = f"@{username}" if username else str(message.chat.id)
SourceChannel(m) ==
    IF m.chat.username # "" THEN At(m.chat.username) ELSE m.chat.id

\* Path(file_name).suffix
Suffix(file_name) ==
    CASE file_name = "doc.PDF" -> ".PDF"
      [] file_name = "doc.exe" -> ".exe"
      [] OTHER -> ""

\* str.lower() of a file suffix
LowerExt(ext) == IF ext = ".PDF" THEN ".pdf" ELSE ext

FileNames == {"doc", "doc.PDF", "doc.exe"}

\* file sizes in bytes: exactly 1 MB, and one byte more
FileSizes == {1024 * 1024, 1024 * 1024 + 1}

\* the attributes handle_service_message looks for on message.service
ServiceAttrs ==
    {"group_call_started", "group_call_ended", "video_chat_started",
     "video_chat_ended", "live_stream_started", "live_stream_ended"}

\* the kinds of service message: the six the handler names, and one other
Signals == ServiceAttrs \cup {"pinned_message"}

\* message.service of a message that is not a service message
NoService == [signal |-> "none", attrs |-> [a \in ServiceAttrs |-> "absent"]]

\* message.service of a service message of the given kind.  What the object
\* looks like is up to the client library, so three shapes are taken: "bare",
\* a value with none of the attributes (a flag or an enumeration member);
\* "own", an object with the attribute of its kind only, set; "full", an
\* object with all the attributes, that of its kind set and the others unset
ServiceObject(signal, shape) ==
    [signal |-> signal,
     attrs |-> [a \in ServiceAttrs |->
                  IF shape = "bare" THEN "absent"
                  ELSE IF a = signal THEN "true"
                  ELSE IF shape = "full" THEN "false"
                  ELSE "absent"]]

\* a text message with no text, from the chat mapped by user name
BaseMessage ==
    [chat |-> CHOOSE c \in Chats : c.username = "src", kind |-> "none",
     text |-> <<>>, caption |-> <<>>, file_name |-> "", file_size |-> 0,
     service |-> NoService]

\* message.text or message.caption or ""
TextOf(m) == IF m.text # <<>> THEN m.text ELSE m.caption

\* the messages over the given texts: a message has a text or a caption, never
\* both, a caption only with media that take one, a file name only on a
\* document, a size only on media that carry a file
MessagesOver(texts) ==
    LET base == BaseMessage
        shapes ==
            {[base EXCEPT !.text = t] : t \in texts}
            \cup {[base EXCEPT !.kind = k] :
                    k \in (Kinds \ CaptionKinds) \ {"none", "service"}}
            \cup {[base EXCEPT !.kind = "service",
                               !.service = ServiceObject("video_chat_started", "bare")]}
            \cup {[base EXCEPT !.kind = "animation", !.caption = t] : t \in texts}
            \cup {[base EXCEPT !.kind = k, !.caption = t, !.file_size = z] :
                    k \in SizedKinds \ {"document"}, t \in texts, z \in FileSizes}
            \cup {[base EXCEPT !.kind = "document", !.caption = t, !.file_size = z,
                               !.file_name = f] :
                    t \in texts, z \in FileSizes, f \in FileNames}
    IN  {[m EXCEPT !.chat = c] : m \in shapes, c \in Chats}

----------------------------------------------------------------------------
(* The configuration document (Config.get with its defaults).              *)

DefaultConfig ==
    [retry_attempts |-> 3,                 \* delays.retry_attempts
     multiplier |-> 12,                    \* delays.flood_wait_multiplier
     message_delay |-> 5,                  \* delays.message_delay, 0.5 s
     mapping |-> [src \in {"@src", "-1002"} |->
                     IF src = "@src" THEN "@dst" ELSE "@dst2"],
     content_filtering |-> FALSE,          \* features.content_filtering
     blocked_words |-> <<>>,               \* filters.blocked_words
     allowed_file_types |-> {},            \* filters.allowed_file_types
     max_file_size_mb |-> 50,              \* filters.max_file_size_mb
     min_message_length |-> 0,             \* filters.min_message_length
     replace_all_files |-> TRUE,           \* replacement.replace_all_files
     replacement_exists |-> FALSE,         \* os.path.exists(replacement_file)
     database_enabled |-> TRUE,            \* database.enabled
     webhook_url |-> "",                   \* notifications.webhook_url
     auto_restart |-> FALSE,               \* features.auto_restart
     voice_chat_monitoring |-> TRUE,       \* features.voice_chat_monitoring
     pytgcalls_available |-> TRUE]         \* PYTGCALLS_AVAILABLE

\* whether an INSERT of log_message or log_error stores its row: initialize
\* creates the tables only with database.enabled; without it they are there
\* only when an earlier run left them in the file, and a failed INSERT is
\* logged and nothing more
Stores(cfg) == IF cfg.database_enabled THEN {TRUE} ELSE BOOLEAN

\* configurations of the retry loop
DispatchConfigs ==
    {[DefaultConfig EXCEPT !.retry_attempts = n, !.multiplier = m] :
        n \in 0..MaxRetryAttempts, m \in Multipliers}

\* mutant: a default target for the sources the mapping does not hold
MappingGetMutantDefault(cfg, source) ==
    IF source \in DOMAIN cfg.mapping THEN cfg.mapping[source] ELSE "@dst"

\* channel_mapping.get(source_channel); "" stands for None
MappingGet(cfg, source) ==
    IF source \in DOMAIN cfg.mapping THEN cfg.mapping[source] ELSE ""

----------------------------------------------------------------------------
(* ContentFilter.should_process_message.                                   *)

\* mutant: a file name without extension is rejected like any extension that
\* is not in the allow-list
should_process_messageMutantNoExtension(m, cfg) ==
    LET text == TextOf(m)
        file_ext == LowerExt(Suffix(m.file_name))
    IN  IF ~cfg.content_filtering THEN [ok |-> TRUE, reason |-> ""]
        ELSE IF StrLen(Strip(text)) < cfg.min_message_length
            THEN [ok |-> FALSE, reason |-> "Message too short"]
        ELSE IF \E i \in 1..Len(cfg.blocked_words) :
                    Contains(Lower(text), Lower(cfg.blocked_words[i]))
            THEN [ok |-> FALSE, reason |-> "Contains blocked word"]
        ELSE IF /\ m.kind = "document"
                /\ cfg.allowed_file_types # {}
                /\ file_ext \notin cfg.allowed_file_types
            THEN [ok |-> FALSE, reason |-> "File type not allowed"]
        ELSE IF (IF m.kind \in {"document", "photo", "video"} THEN m.file_size ELSE 0)
                    > cfg.max_file_size_mb * 1024 * 1024
            THEN [ok |-> FALSE, reason |-> "File too large"]
        ELSE [ok |-> TRUE, reason |-> ""]

\* mutant: the blocked words are looked for before the length is checked
should_process_messageMutantWordsFirst(m, cfg) ==
    LET text == TextOf(m)
        file_ext == LowerExt(Suffix(m.file_name))
    IN  IF ~cfg.content_filtering THEN [ok |-> TRUE, reason |-> ""]
        ELSE IF \E i \in 1..Len(cfg.blocked_words) :
                    Contains(Lower(text), Lower(cfg.blocked_words[i]))
            THEN [ok |-> FALSE, reason |-> "Contains blocked word"]
        ELSE IF StrLen(Strip(text)) < cfg.min_message_length
            THEN [ok |-> FALSE, reason |-> "Message too short"]
        ELSE IF /\ m.kind = "document"
                /\ cfg.allowed_file_types # {}
                /\ file_ext # ""
                /\ file_ext \notin cfg.allowed_file_types
            THEN [ok |-> FALSE, reason |-> "File type not allowed"]
        ELSE IF (IF m.kind \in {"document", "photo", "video"} THEN m.file_size ELSE 0)
                    > cfg.max_file_size_mb * 1024 * 1024
            THEN [ok |-> FALSE, reason |-> "File too large"]
        ELSE [ok |-> TRUE, reason |-> ""]

\* mutant: the configured word is compared as written, not lower-cased
RECURSIVE FirstBlockedMutantNoLower(_, _, _)
FirstBlockedMutantNoLower(words, text_lower, i) ==
    IF i > Len(words) THEN 0
    ELSE IF Contains(text_lower, words[i]) THEN i
    ELSE FirstBlockedMutantNoLower(words, text_lower, i + 1)

\* the loop over self.blocked_words: the first word found in the text
RECURSIVE FirstBlocked(_, _, _)
FirstBlocked(words, text_lower, i) ==
    IF i > Len(words) THEN 0
    ELSE IF Contains(text_lower, Lower(words[i])) THEN i
    ELSE FirstBlocked(words, text_lower, i + 1)

\* the file size the check reads: of a document, a photo or a video
FilterFileSize(m) ==
    IF m.kind \in {"document", "photo", "video"} THEN m.file_size ELSE 0

should_process_message(m, cfg) ==
    LET text == TextOf(m)
        hit == FirstBlocked(cfg.blocked_words, Lower(text), 1)
        file_ext == LowerExt(Suffix(m.file_name))
    IN  IF ~cfg.content_filtering THEN [ok |-> TRUE, reason |-> ""]
        ELSE IF StrLen(Strip(text)) < cfg.min_message_length
            THEN [ok |-> FALSE, reason |-> "Message too short"]
        ELSE IF hit # 0
            THEN [ok |-> FALSE, reason |-> "Contains blocked word"]
        ELSE IF /\ m.kind = "document"
                /\ cfg.allowed_file_types # {}
                /\ file_ext # ""
                /\ file_ext \notin cfg.allowed_file_types
            THEN [ok |-> FALSE, reason |-> "File type not allowed"]
        ELSE IF FilterFileSize(m) > cfg.max_file_size_mb * 1024 * 1024
            THEN [ok |-> FALSE, reason |-> "File too large"]
        ELSE [ok |-> TRUE, reason |-> ""]

----------------------------------------------------------------------------
(* MessageProcessor: the choice of the outbound call.                      *)

\* os.path.getsize(self.replacement_file), in bytes
ReplacementSize == 4096

\* no outbound call
NoOp ==
    [name |-> "none", payload |-> "none", text |-> <<>>,
     msg_type |-> "none", file_size |-> 0]

_get_message_type(m) == IF m.kind \in MediaKinds THEN m.kind ELSE "text"

_get_file_size(m) == IF m.kind \in SizedKinds THEN m.file_size ELSE 0

\* the client method _send_media_message hands to _handle_flood_wait
SendMethod(kind) ==
    CASE kind = "photo" -> "send_photo"
      [] kind = "video" -> "send_video"
      [] kind = "animation" -> "send_animation"
      [] kind = "document" -> "send_document"
      [] kind = "audio" -> "send_audio"
      [] kind = "voice" -> "send_voice"
      [] kind = "sticker" -> "send_sticker"
      [] kind = "poll" -> "send_poll"
      [] kind = "location" -> "send_location"
      [] kind = "contact" -> "send_contact"
      [] OTHER -> "send_message"

\* mutant: with no media a text message is sent even when the text is empty
_send_media_messageMutantEmptyText(m, text) ==
    LET common == [NoOp EXCEPT !.msg_type = _get_message_type(m),
                               !.file_size = _get_file_size(m)]
    IN  IF m.kind \in CaptionKinds
            THEN [common EXCEPT !.name = SendMethod(m.kind), !.payload = "original",
                                !.text = text]
        ELSE IF m.kind \in MediaKinds
            THEN [common EXCEPT !.name = SendMethod(m.kind), !.payload = "original"]
        ELSE [common EXCEPT !.name = "send_message", !.payload = "text",
                            !.text = text]

\* _send_media_message: the call by content kind; a caption only where the
\* method takes one; with no media, a text message if there is text
_send_media_message(m, text) ==
    LET common == [NoOp EXCEPT !.msg_type = _get_message_type(m),
                               !.file_size = _get_file_size(m)]
    IN  IF m.kind \in CaptionKinds
            THEN [common EXCEPT !.name = SendMethod(m.kind), !.payload = "original",
                                !.text = text]
        ELSE IF m.kind \in MediaKinds
            THEN [common EXCEPT !.name = SendMethod(m.kind), !.payload = "original"]
        ELSE IF text # <<>>
            THEN [common EXCEPT !.name = "send_message", !.payload = "text",
                                !.text = text]
        ELSE common

\* _send_replacement_file: send_document of self.replacement_file
_send_replacement_file(text) ==
    [name |-> "send_document", payload |-> "replacement", text |-> text,
     msg_type |-> "file_replacement", file_size |-> ReplacementSize]

\* mutant: the replacement file is sent without testing that it exists
ChooseOpMutantNoExistsTest(m, cfg) ==
    LET modified_text == replace_links(TextOf(m)).text
    IN  IF cfg.replace_all_files /\ m.kind \in {"document", "audio", "voice"}
        THEN _send_replacement_file(modified_text)
        ELSE _send_media_message(m, modified_text)

\* _send_processed_message up to the call of _handle_flood_wait
ChooseOp(m, cfg) ==
    LET modified_text == replace_links(TextOf(m)).text
        should_replace_file ==
            cfg.replace_all_files /\ m.kind \in {"document", "audio", "voice"}
    IN  IF should_replace_file /\ cfg.replacement_exists
        THEN _send_replacement_file(modified_text)
        ELSE _send_media_message(m, modified_text)

----------------------------------------------------------------------------
(* MessageProcessor.process_message, one step per stretch of code between  *)
(* two awaits that suspend (asyncio.sleep, the send call).                 *)

NewEvent ==
    [pc |-> "new", outcome |-> "none", reason |-> "", target |-> "",
     delayed |-> FALSE, op |-> NoOp]

\* mutant: the message row is written whatever the send returned and whether
\* or not the database is enabled
CompleteMutantAlwaysLog(e, c) ==
    LET m == inbox[e]
        source == SourceChannel(m)
    IN  IF c.pc = "raised"
        THEN /\ ev' = [ev EXCEPT ![e].pc = "done", ![e].outcome = "error"]
             /\ errors_db' = Append(errors_db,
                    [error_type |-> "message_processing", channel |-> source])
             /\ UNCHANGED <<processed_count, messages_db, notifications>>
        ELSE /\ ev' = [ev EXCEPT ![e].pc = "done", ![e].outcome = "processed"]
             /\ messages_db' =
                    Append(messages_db,
                        [source_channel |-> source,
                         target_channel |-> ev[e].target,
                         source_message_id |-> e,
                         target_message_id |-> Len(sends'),
                         message_type |-> ev[e].op.msg_type,
                         content_preview |-> Truncate(ev[e].op.text, 100),
                         file_size |-> ev[e].op.file_size])
             /\ processed_count' = processed_count + 1
             /\ UNCHANGED <<errors_db, notifications>>

\* mutant: the exception leaves process_message and ends the routing of the
\* events that follow
CompleteMutantAbort(e, c) ==
    IF c.pc = "raised"
    THEN /\ ev' = [d \in Events |->
                    IF d = e THEN [ev[d] EXCEPT !.pc = "done", !.outcome = "error"]
                    ELSE IF d > e /\ ev[d].pc = "new"
                        THEN [ev[d] EXCEPT !.pc = "done", !.outcome = "aborted"]
                    ELSE ev[d]]
         /\ UNCHANGED <<processed_count, messages_db, errors_db, notifications>>
    ELSE /\ ev' = [ev EXCEPT ![e].pc = "done", ![e].outcome = "processed"]
         /\ processed_count' = processed_count + 1
         /\ UNCHANGED <<messages_db, errors_db, notifications>>

\* mutant: an event whose send stage raised is counted too, and no error
\* notification is sent for it
CompleteMutantCountsRaised(e, c) ==
    LET m == inbox[e]
        source == SourceChannel(m)
    IN  /\ ev' = [ev EXCEPT ![e].pc = "done",
                            ![e].outcome = IF c.pc = "raised" THEN "error"
                                           ELSE "processed"]
        /\ errors_db' =
              IF c.pc = "raised"
              THEN Append(errors_db, [error_type |-> "message_processing",
                                      channel |-> source])
              ELSE errors_db
        /\ messages_db' =
              IF c.pc = "returned" /\ c.result = "Message" /\ config.database_enabled
              THEN Append(messages_db,
                      [source_channel |-> source,
                       target_channel |-> ev[e].target,
                       source_message_id |-> e,
                       target_message_id |-> Len(sends'),
                       message_type |-> ev[e].op.msg_type,
                       content_preview |-> Truncate(ev[e].op.text, 100),
                       file_size |-> ev[e].op.file_size])
              ELSE messages_db
        /\ processed_count' = processed_count + 1
        /\ UNCHANGED notifications

\* mutant: the event is counted only when the send returned a message
CompleteMutantCountsSent(e, c) ==
    LET m == inbox[e]
        source == SourceChannel(m)
    IN  IF c.pc = "raised"
        THEN /\ ev' = [ev EXCEPT ![e].pc = "done", ![e].outcome = "error"]
             /\ errors_db' = Append(errors_db,
                    [error_type |-> "message_processing", channel |-> source])
             /\ notifications' =
                    IF config.webhook_url # ""
                    THEN Append(notifications,
                            [title |-> "Bot Error", context |-> "message processing",
                             level |-> "error", ev |-> e])
                    ELSE notifications
             /\ UNCHANGED <<processed_count, messages_db>>
        ELSE /\ ev' = [ev EXCEPT ![e].pc = "done", ![e].outcome = "processed"]
             /\ messages_db' =
                    IF c.result = "Message" /\ config.database_enabled
                    THEN Append(messages_db,
                            [source_channel |-> source,
                             target_channel |-> ev[e].target,
                             source_message_id |-> e,
                             target_message_id |-> Len(sends'),
                             message_type |-> ev[e].op.msg_type,
                             content_preview |-> Truncate(ev[e].op.text, 100),
                             file_size |-> ev[e].op.file_size])
                    ELSE messages_db
             /\ processed_count' = IF c.result = "Message"
                                   THEN processed_count + 1 ELSE processed_count
             /\ UNCHANGED <<errors_db, notifications>>

\* the rest of _send_processed_message and of process_message once
\* _handle_flood_wait has ended in state c; the id the server gave the sent
\* message is taken to be the rank of its send call
Complete(e, c) ==
    LET m == inbox[e]
        source == SourceChannel(m)
    IN  IF c.pc = "raised"
        THEN \* except Exception: raise; then the handler of process_message
             /\ ev' = [ev EXCEPT ![e].pc = "done", ![e].outcome = "error"]
             /\ \E stored \in Stores(config) :
                   errors_db' =
                      IF stored
                      THEN Append(errors_db, [error_type |-> "message_processing",
                                              channel |-> source])
                      ELSE errors_db
             /\ notifications' =
                    IF config.webhook_url # ""
                    THEN Append(notifications,
                            [title |-> "Bot Error", context |-> "message processing",
                             level |-> "error", ev |-> e])
                    ELSE notifications
             /\ UNCHANGED <<processed_count, messages_db>>
        ELSE /\ ev' = [ev EXCEPT ![e].pc = "done", ![e].outcome = "processed"]
             /\ messages_db' =
                    IF c.result = "Message" /\ config.database_enabled
                    THEN Append(messages_db,
                            [source_channel |-> source,
                             target_channel |-> ev[e].target,
                             source_message_id |-> e,
                             target_message_id |-> Len(sends'),
                             message_type |-> ev[e].op.msg_type,
                             content_preview |-> Truncate(ev[e].op.text, 100),
                             file_size |-> ev[e].op.file_size])
                    ELSE messages_db
             /\ processed_count' = processed_count + 1
             /\ UNCHANGED <<errors_db, notifications>>

\* _send_processed_message: rewrite, choose the call, enter _handle_flood_wait
BeginSend(e, target) ==
    LET op == ChooseOp(inbox[e], config)
        started == [ev EXCEPT ![e].target = target, ![e].op = op]
    IN  IF op.name = "none"
        THEN /\ ev' = [started EXCEPT ![e].pc = "done", ![e].outcome = "processed"]
             /\ processed_count' = processed_count + 1
             /\ UNCHANGED <<call, messages_db, errors_db, notifications>>
        ELSE /\ call' = [call EXCEPT ![e] = CallStart(config)]
             /\ IF call'[e].pc = "returned"
                THEN /\ ev' = [started EXCEPT ![e].pc = "done",
                                              ![e].outcome = "processed"]
                     /\ processed_count' = processed_count + 1
                ELSE /\ ev' = [started EXCEPT ![e].pc = "sending"]
                     /\ UNCHANGED processed_count
             /\ UNCHANGED <<messages_db, errors_db, notifications>>

\* mutant: process_message without the test of message.service
ReceiveMutantNoServiceTest(e) ==
    /\ e <= Len(inbox)
    /\ ev[e].pc = "new"
    /\ \A d \in 1..(e - 1) : ev[d].pc # "new"
    /\ LET m == inbox[e]
           target_channel == MappingGet(config, SourceChannel(m))
           verdict == should_process_message(m, config)
       IN  IF target_channel = ""
               THEN /\ ev' = [ev EXCEPT ![e].pc = "done", ![e].outcome = "dropped"]
                    /\ UNCHANGED <<call, processed_count, messages_db, errors_db,
                                   notifications>>
           ELSE IF ~verdict.ok
               THEN /\ ev' = [ev EXCEPT ![e].pc = "done", ![e].outcome = "filtered",
                                        ![e].reason = verdict.reason,
                                        ![e].target = target_channel]
                    /\ UNCHANGED <<call, processed_count, messages_db, errors_db,
                                   notifications>>
           ELSE IF config.message_delay > 0
               THEN /\ ev' = [ev EXCEPT ![e].pc = "delay", ![e].delayed = TRUE,
                                        ![e].target = target_channel]
                    /\ UNCHANGED <<call, processed_count, messages_db, errors_db,
                                   notifications>>
           ELSE BeginSend(e, target_channel)
    /\ UNCHANGED <<config, sends, inbox, rw, sideVars>>

\* mutant: the test of message.service comes before the content filter
ReceiveMutantServiceFirst(e) ==
    /\ e <= Len(inbox)
    /\ ev[e].pc = "new"
    /\ \A d \in 1..(e - 1) : ev[d].pc # "new"
    /\ LET m == inbox[e]
           target_channel == MappingGet(config, SourceChannel(m))
           verdict == should_process_message(m, config)
       IN  IF target_channel = ""
               THEN /\ ev' = [ev EXCEPT ![e].pc = "done", ![e].outcome = "dropped"]
                    /\ UNCHANGED <<call, processed_count, messages_db, errors_db,
                                   notifications>>
           ELSE IF m.kind = "service"
               THEN /\ ev' = [ev EXCEPT ![e].pc = "done", ![e].outcome = "service",
                                        ![e].target = target_channel]
                    /\ UNCHANGED <<call, processed_count, messages_db, errors_db,
                                   notifications>>
           ELSE IF ~verdict.ok
               THEN /\ ev' = [ev EXCEPT ![e].pc = "done", ![e].outcome = "filtered",
                                        ![e].reason = verdict.reason,
                                        ![e].target = target_channel]
                    /\ UNCHANGED <<call, processed_count, messages_db, errors_db,
                                   notifications>>
           ELSE IF config.message_delay > 0
               THEN /\ ev' = [ev EXCEPT ![e].pc = "delay", ![e].delayed = TRUE,
                                        ![e].target = target_channel]
                    /\ UNCHANGED <<call, processed_count, messages_db, errors_db,
                                   notifications>>
           ELSE BeginSend(e, target_channel)
    /\ UNCHANGED <<config, sends, inbox, rw, sideVars>>

\* process_message from its entry to its first suspension or its return.
\* handle_message is a callback of the listener client, which is built with
\* the default number of handler workers and takes no lock of its own: the
\* callback is entered for the events in their order of arrival, and it may
\* be entered while the callback of an earlier event is suspended at an await
Receive(e) ==
    /\ e <= Len(inbox)
    /\ ev[e].pc = "new"
    /\ \A d \in 1..(e - 1) : ev[d].pc # "new"
    /\ LET m == inbox[e]
           target_channel == MappingGet(config, SourceChannel(m))
           verdict == should_process_message(m, config)
       IN  IF target_channel = ""
               THEN /\ ev' = [ev EXCEPT ![e].pc = "done", ![e].outcome = "dropped"]
                    /\ UNCHANGED <<call, processed_count, messages_db, errors_db,
                                   notifications>>
           ELSE IF ~verdict.ok
               THEN /\ ev' = [ev EXCEPT ![e].pc = "done", ![e].outcome = "filtered",
                                        ![e].reason = verdict.reason,
                                        ![e].target = target_channel]
                    /\ UNCHANGED <<call, processed_count, messages_db, errors_db,
                                   notifications>>
           ELSE IF m.kind = "service"
               THEN /\ ev' = [ev EXCEPT ![e].pc = "done", ![e].outcome = "service",
                                        ![e].target = target_channel]
                    /\ UNCHANGED <<call, processed_count, messages_db, errors_db,
                                   notifications>>
           ELSE IF config.message_delay > 0
               THEN /\ ev' = [ev EXCEPT ![e].pc = "delay", ![e].delayed = TRUE,
                                        ![e].target = target_channel]
                    /\ UNCHANGED <<call, processed_count, messages_db, errors_db,
                                   notifications>>
           ELSE BeginSend(e, target_channel)
    /\ UNCHANGED <<config, sends, inbox, rw, sideVars>>

\* asyncio.sleep(self.message_delay) has returned
DelayDone(e) ==
    /\ ev[e].pc = "delay"
    /\ BeginSend(e, ev[e].target)
    /\ UNCHANGED <<config, sends, inbox, rw, sideVars>>

\* the outcomes of a send call explored by the router
RouterOutcomes == {o \in Outcomes : o.exc = "FloodWait" => o.value = 10}

\* one await func(...) of _handle_flood_wait and what follows it without
\* suspending; the call is recorded with the method, its arguments and
\* whether it returned a message
SendInvoke(e) ==
    /\ ev[e].pc = "sending"
    /\ call[e].pc = "attempting"
    /\ \E o \in RouterOutcomes :
          /\ call' = [call EXCEPT ![e] = CallInvoke(call[e], o, config)]
          /\ sends' = Append(sends, [ev |-> e, name |-> ev[e].op.name,
                                     chat_id |-> ev[e].target,
                                     payload |-> ev[e].op.payload,
                                     text |-> ev[e].op.text,
                                     ok |-> o.exc = "none"])
    /\ IF Ended(call'[e])
       THEN Complete(e, call'[e])
       ELSE UNCHANGED <<ev, processed_count, messages_db, errors_db, notifications>>
    /\ UNCHANGED <<config, inbox, rw, sideVars>>

\* a sleep of _handle_flood_wait has returned
SendResume(e) ==
    /\ ev[e].pc = "sending"
    /\ call[e].pc = "waiting"
    /\ call' = [call EXCEPT ![e] = CallResume(call[e], config)]
    /\ IF Ended(call'[e])
       THEN Complete(e, call'[e])
       ELSE UNCHANGED <<ev, processed_count, messages_db, errors_db, notifications>>
    /\ UNCHANGED <<config, sends, inbox, rw, sideVars>>

----------------------------------------------------------------------------
(* ServiceMessageHandler.handle_service_message.                           *)

\* hasattr(service, a) and service.a
IsSet(service, a) == service.attrs[a] = "true"

\* hasattr(service, a)
HasAttr(service, a) == service.attrs[a] # "absent"

\* the notification text chosen by the if/elif chain; "" stands for None
notification_text(service) ==
    IF IsSet(service, "group_call_started") THEN "Voice Chat Started"
    ELSE IF IsSet(service, "group_call_ended") THEN "Voice Chat Ended"
    ELSE IF IsSet(service, "video_chat_started") THEN "Video Chat Started"
    ELSE IF IsSet(service, "video_chat_ended") THEN "Video Chat Ended"
    ELSE IF HasAttr(service, "live_stream_started") THEN "Live Stream Started"
    ELSE IF HasAttr(service, "live_stream_ended") THEN "Live Stream Ended"
    ELSE ""

\* handle_service_message for event e: _send_service_notification, whose
\* send_message may fail without consequence, then database.log_message
handle_service_message(e) ==
    /\ e <= Len(inbox)
    /\ svc[e] = "new"
    /\ svc' = [svc EXCEPT ![e] = "done"]
    /\ LET m == inbox[e]
           source_channel == SourceChannel(m)
           target_channel == MappingGet(config, source_channel)
           text == notification_text(m.service)
       IN  IF m.kind # "service" \/ target_channel = "" \/ text = ""
           THEN UNCHANGED <<sends, messages_db>>
           ELSE /\ \E sent \in BOOLEAN :
                     sends' = Append(sends, [ev |-> e, name |-> "send_message",
                                             chat_id |-> target_channel,
                                             payload |-> "text", text |-> <<text>>,
                                             ok |-> sent])
                /\ \E stored \in Stores(config) :
                     messages_db' =
                        IF stored
                        THEN Append(messages_db,
                                [source_channel |-> source_channel,
                                 target_channel |-> target_channel,
                                 source_message_id |-> e,
                                 target_message_id |-> 0,
                                 message_type |-> "service",
                                 content_preview |-> <<text>>,
                                 file_size |-> 0])
                        ELSE messages_db
    /\ UNCHANGED <<config, call, ev, processed_count, errors_db, notifications,
                   inbox, rw, bot>>

----------------------------------------------------------------------------
(* ChannelMirrorBot and ClientManager.                                     *)

\* ClientManager.max_restarts
max_restarts == 5

\* the background coroutines that start hands to asyncio.gather, besides the
\* idle call of the listener
Tasks == {"voice", "stats", "cleanup"}

\* the orchestrator once constructed and initialized, before start is called.
\* pc is the place of the outermost unfinished start call: "ready" before the
\* call, "failed" in its handler of Exception, "gather" at the await of
\* asyncio.gather, "shutting" at the await of stop_clients in shutdown,
\* "stopped" once every start call has returned.  depth counts the start
\* calls that have not returned, a task is "none" (not created), "sleeping",
\* "polling" (the voice monitor about to check the chats) or "ended", wakes
\* counts the turns each task took, restarts lists the restart_clients calls,
\* seen holds what the last poll of the voice monitor found for each source
NoBot ==
    [running |-> FALSE, monitoring |-> FALSE, active_calls |-> {},
     seen |-> [s \in {"@src", "-1002"} |-> "none"],
     restart_count |-> 0, stops |-> 0, starts |-> 0, restarts |-> <<>>,
     pc |-> "ready", depth |-> 0, shutdowns |-> 0,
     task |-> [t \in Tasks |-> "none"], wakes |-> [t \in Tasks |-> 0]]

\* mutant: shutdown does not stop the voice monitor
ShutdownFlagsMutantKeepsMonitoring(b) ==
    [b EXCEPT !.running = FALSE, !.pc = "shutting"]

\* shutdown up to its first await: self.running = False, stop_monitoring()
ShutdownFlags(b) ==
    [b EXCEPT !.running = FALSE, !.monitoring = FALSE, !.pc = "shutting"]

\* start up to its first await.  The statements before asyncio.gather may
\* raise (raised); otherwise the tasks are created and each runs to its
\* first await: start_monitoring returns at once when the monitoring is
\* switched off or PyTgCalls is missing, the cleanup task exists only with
\* the database enabled
StartFrame(b, cfg, raised) ==
    LET b1 == [b EXCEPT !.running = TRUE, !.depth = @ + 1]
        voice_on == cfg.voice_chat_monitoring /\ cfg.pytgcalls_available
    IN  IF raised THEN [b1 EXCEPT !.pc = "failed"]
        ELSE [b1 EXCEPT !.pc = "gather",
                        !.monitoring = IF voice_on THEN TRUE ELSE @,
                        !.task = [t \in Tasks |->
                                    CASE t = "voice" ->
                                            IF voice_on THEN "polling" ELSE "ended"
                                      [] t = "stats" -> "sleeping"
                                      [] OTHER ->
                                            IF cfg.database_enabled THEN "sleeping"
                                            ELSE "none"]]

\* mutant: restart_clients without the test of max_restarts
restart_clientsMutantNoLimit(b, ok) ==
    [bot |-> [b EXCEPT !.restart_count = @ + 1, !.stops = @ + 1, !.starts = @ + 1],
     result |-> ok]

\* ClientManager.restart_clients; ok is what start_clients returns
restart_clients(b, ok) ==
    IF b.restart_count >= max_restarts
    THEN [bot |-> b, result |-> FALSE]
    ELSE [bot |-> [b EXCEPT !.restart_count = @ + 1, !.stops = @ + 1,
                            !.starts = @ + 1],
          result |-> ok]

\* ChannelMirrorBot.start is called by main
start ==
    /\ bot.pc = "ready"
    /\ \E raised \in BOOLEAN : bot' = StartFrame(bot, config, raised)
    /\ UNCHANGED <<config, call, routerVars, rw, svc>>

\* the handler of Exception in start: with features.auto_restart the clients
\* are restarted and, when that succeeded, start is called again from inside
\* the handler; in every other case the finally clause calls shutdown
on_exception ==
    /\ bot.pc = "failed"
    /\ IF ~config.auto_restart
       THEN bot' = ShutdownFlags(bot)
       ELSE \E ok, raised \in BOOLEAN :
               LET r == restart_clients(bot, ok)
                   b1 == [r.bot EXCEPT !.restarts =
                             Append(@, [before |-> bot.restart_count,
                                        after |-> r.bot.restart_count,
                                        result |-> r.result,
                                        stops |-> r.bot.stops - bot.stops,
                                        starts |-> r.bot.starts - bot.starts])]
               IN  bot' = IF r.result THEN StartFrame(b1, config, raised)
                          ELSE ShutdownFlags(b1)
    /\ UNCHANGED <<config, call, routerVars, rw, svc>>

\* the await of asyncio.gather is interrupted: by KeyboardInterrupt, and the
\* tasks stay as they are, or by the cancellation of the main task, which
\* cancels the gathered tasks too; the finally clause calls shutdown
on_interrupt ==
    /\ bot.pc = "gather"
    /\ \E cancelled \in BOOLEAN :
          bot' = ShutdownFlags(
                    [bot EXCEPT !.task =
                        [t \in Tasks |->
                            IF cancelled /\ bot.task[t] # "none" THEN "ended"
                            ELSE bot.task[t]]])
    /\ UNCHANGED <<config, call, routerVars, rw, svc>>

\* the rest of shutdown: stop_clients, the shutdown notification; then the
\* start call returns, and the start call that called it, if any, goes
\* through its own finally clause
shutdown ==
    /\ bot.pc = "shutting"
    /\ LET b1 == [bot EXCEPT !.stops = @ + 1, !.shutdowns = @ + 1,
                             !.depth = @ - 1]
       IN  bot' = IF b1.depth > 0 THEN ShutdownFlags(b1)
                  ELSE [b1 EXCEPT !.pc = "stopped"]
    /\ notifications' =
          IF config.webhook_url # ""
          THEN Append(notifications,
                  [title |-> "Bot Shutdown", context |-> "", level |-> "info",
                   ev |-> 0])
          ELSE notifications
    /\ UNCHANGED <<config, call, ev, processed_count, messages_db, errors_db,
                   sends, inbox, rw, svc>>

\* the event loop runs as long as a start call has not returned
LoopRuns == bot.pc \in {"gather", "shutting"}

\* mutant: the statistics task resets the counter of the router once it has
\* reported
start_stats_monitoringMutantResets ==
    /\ LoopRuns
    /\ bot.task["stats"] = "sleeping"
    /\ bot.wakes["stats"] < MaxWakes
    /\ bot' = [bot EXCEPT !.wakes["stats"] = @ + 1]
    /\ processed_count' = 0
    /\ UNCHANGED <<config, call, ev, messages_db, errors_db, notifications,
                   sends, inbox, rw, svc>>

\* StatsManager.start_stats_monitoring: the sleep of the while True loop
\* returns, the statistics are read and notified, the loop sleeps again
start_stats_monitoring ==
    /\ LoopRuns
    /\ bot.task["stats"] = "sleeping"
    /\ bot.wakes["stats"] < MaxWakes
    /\ bot' = [bot EXCEPT !.wakes["stats"] = @ + 1]
    /\ notifications' =
          IF config.webhook_url # ""
          THEN Append(notifications,
                  [title |-> "Daily Stats", context |-> "", level |-> "info",
                   ev |-> 0])
          ELSE notifications
    /\ UNCHANGED <<config, call, ev, processed_count, messages_db, errors_db,
                   sends, inbox, rw, svc>>

\* cleanup_task of start: the daily sleep returns, cleanup_old_records
\* deletes the rows older than the cutoff from both tables (none of them or
\* all of them here), then while self.running is tested
cleanup_task ==
    /\ LoopRuns
    /\ bot.task["cleanup"] = "sleeping"
    /\ bot.wakes["cleanup"] < MaxWakes
    /\ \E k \in {0, Len(messages_db)}, j \in {0, Len(errors_db)} :
          /\ messages_db' = SubSeq(messages_db, k + 1, Len(messages_db))
          /\ errors_db' = SubSeq(errors_db, j + 1, Len(errors_db))
    /\ bot' = [bot EXCEPT !.wakes["cleanup"] = @ + 1,
                          !.task["cleanup"] = IF bot.running THEN "sleeping"
                                              ELSE "ended"]
    /\ UNCHANGED <<config, call, ev, processed_count, notifications, sends,
                   inbox, rw, svc>>

\* VoiceChatMonitor.start_monitoring: the sleep of 30 seconds returns and
\* while self.monitoring is tested
start_monitoring ==
    /\ LoopRuns
    /\ bot.task["voice"] = "sleeping"
    /\ bot' = [bot EXCEPT !.task["voice"] = IF bot.monitoring THEN "polling"
                                            ELSE "ended"]
    /\ UNCHANGED <<config, call, routerVars, rw, svc>>

\* channel_mapping.keys(): the source channels in the order of the mapping
MappedSources(cfg) ==
    IF DOMAIN cfg.mapping = {"@src"} THEN <<"@src">> ELSE <<"@src", "-1002">>

\* source_chat.id of get_chat(source_channel)
ChatId(source) == IF source = "@src" THEN "-1001" ELSE source

\* mutant: the start of a voice chat is notified on every check that finds
\* the chat active, whether or not it is in active_calls
RECURSIVE CheckFromMutantNoMembership(_, _, _, _, _, _)
CheckFromMutantNoMembership(v, cfg, seen, sent, stored, i) ==
    IF i > Len(MappedSources(cfg)) THEN v
    ELSE LET source == MappedSources(cfg)[i]
             chat_id == ChatId(source)
             target == MappingGet(cfg, source)
             text == IF seen[source] = "active"
                     THEN "Voice Chat Started (detected)"
                     ELSE "Voice Chat Ended (detected)"
             changed == \/ seen[source] = "active"
                        \/ seen[source] = "inactive" /\ chat_id \in v.active_calls
             v1 == IF ~changed THEN v
                   ELSE [active_calls |->
                            IF seen[source] = "active"
                            THEN v.active_calls \cup {chat_id}
                            ELSE v.active_calls \ {chat_id},
                         sends |->
                            Append(v.sends,
                                [ev |-> 0, name |-> "send_message",
                                 chat_id |-> target, payload |-> "text",
                                 text |-> <<text>>, ok |-> sent]),
                         messages_db |->
                            IF sent /\ stored
                            THEN Append(v.messages_db,
                                    [source_channel |-> source,
                                     target_channel |-> target,
                                     source_message_id |-> 0,
                                     target_message_id |-> 0,
                                     message_type |-> "voice_event",
                                     content_preview |-> <<text>>,
                                     file_size |-> 0])
                            ELSE v.messages_db]
         IN  CheckFromMutantNoMembership(v1, cfg, seen, sent, stored, i + 1)

\* the body of the loop of _check_voice_chats for the sources from i on.
\* seen[source] is what the checks of the source gave: "active", "inactive",
\* or "error" when get_chat raised; sent tells whether send_message of
\* _send_vc_notification returned, stored whether log_message stored its
\* row.  v holds active_calls, sends and messages_db
RECURSIVE CheckFrom(_, _, _, _, _, _)
CheckFrom(v, cfg, seen, sent, stored, i) ==
    IF i > Len(MappedSources(cfg)) THEN v
    ELSE LET source == MappedSources(cfg)[i]
             chat_id == ChatId(source)
             target == MappingGet(cfg, source)
             text == IF seen[source] = "active"
                     THEN "Voice Chat Started (detected)"
                     ELSE "Voice Chat Ended (detected)"
             changed == \/ seen[source] = "active" /\ chat_id \notin v.active_calls
                        \/ seen[source] = "inactive" /\ chat_id \in v.active_calls
             v1 == IF ~changed THEN v
                   ELSE [active_calls |->
                            IF seen[source] = "active"
                            THEN v.active_calls \cup {chat_id}
                            ELSE v.active_calls \ {chat_id},
                         sends |->
                            Append(v.sends,
                                [ev |-> 0, name |-> "send_message",
                                 chat_id |-> target, payload |-> "text",
                                 text |-> <<text>>, ok |-> sent]),
                         messages_db |->
                            IF sent /\ stored
                            THEN Append(v.messages_db,
                                    [source_channel |-> source,
                                     target_channel |-> target,
                                     source_message_id |-> 0,
                                     target_message_id |-> 0,
                                     message_type |-> "voice_event",
                                     content_preview |-> <<text>>,
                                     file_size |-> 0])
                            ELSE v.messages_db]
         IN  CheckFrom(v1, cfg, seen, sent, stored, i + 1)

\* VoiceChatMonitor._check_voice_chats, then the sleep of 30 seconds begins;
\* the polls are followed up to the given number
CheckVoiceChats(polls) ==
    /\ LoopRuns
    /\ bot.task["voice"] = "polling"
    /\ bot.wakes["voice"] < polls
    /\ \E seen \in [DOMAIN config.mapping -> {"active", "inactive", "error"}],
          sent \in BOOLEAN, stored \in Stores(config) :
          LET v == CheckFrom([active_calls |-> bot.active_calls, sends |-> sends,
                              messages_db |-> messages_db],
                             config, seen, sent, stored, 1)
          IN  /\ bot' = [bot EXCEPT !.active_calls = v.active_calls,
                                    !.seen = [s \in DOMAIN bot.seen |->
                                                IF s \in DOMAIN seen THEN seen[s]
                                                ELSE "none"],
                                    !.task["voice"] = "sleeping",
                                    !.wakes["voice"] = @ + 1]
              /\ sends' = v.sends
              /\ messages_db' = v.messages_db
    /\ UNCHANGED <<config, call, ev, processed_count, errors_db, notifications,
                   inbox, rw, svc>>

_check_voice_chats == CheckVoiceChats(MaxWakes)

----------------------------------------------------------------------------
(* Initial states and specifications.                                      *)

InitCommon ==
    /\ call = [e \in Events |-> NoCall]
    /\ ev = [e \in Events |-> NewEvent]
    /\ processed_count = 0
    /\ messages_db = <<>>
    /\ errors_db = <<>>
    /\ notifications = <<>>
    /\ sends = <<>>
    /\ svc = [e \in Events |-> "new"]
    /\ bot = NoBot

NoRewrite ==
    [pc |-> "idle", text |-> <<>>, out |-> <<>>, count |-> 0,
     out2 |-> <<>>, count2 |-> 0]

\* the texts of the messages the router is given
RouterTexts ==
    {<<>>, <<"x", "bad">>, <<" ", "x", "bad", " ">>, <<"BAD", "x", "x">>,
     <<"http://", "?", "INVITE=", "x">>}

RouterRetryAttempts == 0..2

\* the configurations the router is run under; a setting that another one
\* switches off keeps its default
RouterConfigs ==
    {c \in
        {[DefaultConfig EXCEPT
            !.retry_attempts = n, !.message_delay = d,
            !.content_filtering = f, !.min_message_length = l,
            !.blocked_words = << <<"BAD">> >>,
            !.allowed_file_types = a, !.max_file_size_mb = 1,
            !.replace_all_files = r, !.replacement_exists = x,
            !.database_enabled = b, !.webhook_url = w] :
          n \in RouterRetryAttempts, d \in {0, 5}, f \in BOOLEAN, l \in {0, 5},
          r \in BOOLEAN, x \in BOOLEAN, b \in BOOLEAN, w \in {"", "url"},
          a \in {{}, {".pdf"}}} :
        /\ (~c.content_filtering => c.min_message_length = 0)
        /\ (~c.content_filtering => c.allowed_file_types = {})}

\* one inbound event is routed
Init ==
    /\ config \in RouterConfigs
    /\ inbox \in {<<m>> : m \in MessagesOver(RouterTexts)}
    /\ rw = NoRewrite
    /\ InitCommon

Next ==
    \E e \in Events : Receive(e) \/ DelayDone(e) \/ SendInvoke(e) \/ SendResume(e)

Spec == Init /\ [][Next]_vars

\* several inbound events in a row: a text that is sent, a text the filter
\* rejects, a text from a chat that is not mapped
SeveralMessages ==
    LET base == BaseMessage
    IN  {[base EXCEPT !.text = <<"http://", "?", "INVITE=", "x">>],
         [base EXCEPT !.text = <<"BAD", "x", "x">>],
         [base EXCEPT !.text = <<"x", "bad">>,
                      !.chat = CHOOSE c \in Chats : c.username = "zzz"]}

SeveralConfigs ==
    {[DefaultConfig EXCEPT
        !.retry_attempts = n, !.message_delay = d, !.content_filtering = TRUE,
        !.blocked_words = << <<"BAD">> >>, !.webhook_url = "url"] :
      n \in {1, 2}, d \in {0, 5}}

\* MaxEvents inbound events, handed to handle_message in their order of arrival
InitSeveral ==
    /\ config \in SeveralConfigs
    /\ inbox \in [1..MaxEvents -> SeveralMessages]
    /\ rw = NoRewrite
    /\ InitCommon

SpecSeveral == InitSeveral /\ [][Next]_vars

\* the messages handed to handle_service_message: service messages of every
\* kind and shape, a text and a photo, from every chat
ServiceMessages ==
    {[m EXCEPT !.chat = c] :
        c \in Chats,
        m \in {[BaseMessage EXCEPT !.kind = "service",
                                   !.service = ServiceObject(g, h)] :
                  g \in Signals, h \in {"bare", "own", "full"}}
              \cup {[BaseMessage EXCEPT !.text = <<"x", "bad">>],
                    [BaseMessage EXCEPT !.kind = "photo"]}}

\* one inbound event is handed to the service handler
InitService ==
    /\ config \in {[DefaultConfig EXCEPT !.database_enabled = b] : b \in BOOLEAN}
    /\ inbox \in {<<m>> : m \in ServiceMessages}
    /\ rw = NoRewrite
    /\ InitCommon

NextService == \E e \in Events : handle_service_message(e)

SpecService == InitService /\ [][NextService]_vars

\* the configurations the orchestrator is run under, with one pair of
\* channels in the mapping
BotConfigs ==
    {[DefaultConfig EXCEPT
        !.mapping = [src \in {"@src"} |-> "@dst"],
        !.auto_restart = a, !.voice_chat_monitoring = v,
        !.pytgcalls_available = p, !.database_enabled = b, !.webhook_url = w] :
      a \in BOOLEAN, v \in BOOLEAN, p \in BOOLEAN, b \in BOOLEAN,
      w \in {"", "url"}}

\* the orchestrator from the call of start on, no event arriving
InitBot ==
    /\ config \in BotConfigs
    /\ inbox = <<>>
    /\ rw = NoRewrite
    /\ InitCommon

NextBot ==
    \/ start \/ on_exception \/ on_interrupt \/ shutdown
    \/ start_stats_monitoring \/ cleanup_task
    \/ start_monitoring \/ _check_voice_chats

SpecBot == InitBot /\ [][NextBot]_vars

\* the voice monitor taken alone, with both pairs of channels in the mapping:
\* start has handed the tasks to asyncio.gather and the monitor is about to
\* make its first check
InitVoice ==
    /\ config \in {[DefaultConfig EXCEPT !.database_enabled = b] : b \in BOOLEAN}
    /\ inbox = <<>>
    /\ rw = NoRewrite
    /\ call = [e \in Events |-> NoCall]
    /\ ev = [e \in Events |-> NewEvent]
    /\ processed_count = 0
    /\ messages_db = <<>>
    /\ errors_db = <<>>
    /\ notifications = <<>>
    /\ sends = <<>>
    /\ svc = [e \in Events |-> "new"]
    /\ bot = StartFrame(NoBot, config, FALSE)

PollVoiceChats == CheckVoiceChats(MaxPolls)

NextVoice == PollVoiceChats \/ start_monitoring

SpecVoice == InitVoice /\ [][NextVoice]_vars

\* an event arrives while the orchestrator and its tasks run: a text with a
\* link or a service message, from the mapped chat
SharedMessages ==
    {[BaseMessage EXCEPT !.text = <<"http://", "?", "INVITE=", "x">>],
     [BaseMessage EXCEPT !.kind = "service",
                         !.service = ServiceObject("video_chat_started", "own")]}

InitShared ==
    /\ config \in {[DefaultConfig EXCEPT !.retry_attempts = 1,
                                         !.mapping = [src \in {"@src"} |-> "@dst"]]}
    /\ inbox \in {<<m>> : m \in SharedMessages}
    /\ rw = NoRewrite
    /\ InitCommon

\* the callbacks of the listener and the tasks of the orchestrator take
\* turns on one event loop
NextShared == Next \/ NextService \/ NextBot

SpecShared == InitShared /\ [][NextShared]_vars

\* one _handle_flood_wait call taken alone, as the call of event 1
InitDispatch ==
    /\ config \in DispatchConfigs
    /\ inbox = <<>>
    /\ rw = NoRewrite
    /\ InitCommon

Enter ==
    /\ call[1].pc = "none"
    /\ call' = [call EXCEPT ![1] = CallStart(config)]
    /\ UNCHANGED <<config, routerVars, rw, sideVars>>

\* mutant: the generic exception handler of the loop also writes an error row
InvokeMutantLogsError ==
    /\ call[1].pc = "attempting"
    /\ \E o \in Outcomes :
          /\ call' = [call EXCEPT ![1] = CallInvoke(call[1], o, config)]
          /\ errors_db' = IF o.exc = "Exception"
                          THEN Append(errors_db, [error_type |-> "send",
                                                  channel |-> ""])
                          ELSE errors_db
    /\ UNCHANGED <<config, ev, processed_count, messages_db, notifications,
                   sends, inbox, rw, sideVars>>

Invoke ==
    /\ call[1].pc = "attempting"
    /\ \E o \in Outcomes : call' = [call EXCEPT ![1] = CallInvoke(call[1], o, config)]
    /\ UNCHANGED <<config, routerVars, rw, sideVars>>

Resume ==
    /\ call[1].pc = "waiting"
    /\ call' = [call EXCEPT ![1] = CallResume(call[1], config)]
    /\ UNCHANGED <<config, routerVars, rw, sideVars>>

NextDispatch == Enter \/ Invoke \/ Resume

SpecDispatch == InitDispatch /\ [][NextDispatch]_vars

\* values of delays.retry_attempts large enough for the exponential pause
\* after a generic exception to grow past five minutes
LongRetryAttempts == {11, 12}

\* one _handle_flood_wait call with many attempts allowed
InitLongRetry ==
    /\ config \in {[DefaultConfig EXCEPT !.retry_attempts = n, !.multiplier = m] :
                      n \in LongRetryAttempts, m \in Multipliers}
    /\ inbox = <<>>
    /\ rw = NoRewrite
    /\ InitCommon

\* the outcomes of func explored over the many attempts: a message, a
\* generic exception, a FloodWait of 400 seconds, an unrecoverable error
LongRetryOutcomes ==
    {o \in Outcomes : /\ o.exc = "FloodWait" => o.value = 400
                      /\ o.exc \in NonRecoverable => o.exc = "MediaEmpty"}

\* one await func(...) of the call, with one of these outcomes; a FloodWait
\* is explored on the first attempt only
InvokeLong ==
    /\ call[1].pc = "attempting"
    /\ \E o \in LongRetryOutcomes :
          /\ o.exc = "FloodWait" => call[1].attempt = 0
          /\ call' = [call EXCEPT ![1] = CallInvoke(call[1], o, config)]
    /\ UNCHANGED <<config, routerVars, rw, sideVars>>

NextLongRetry == Enter \/ InvokeLong \/ Resume

SpecLongRetry == InitLongRetry /\ [][NextLongRetry]_vars

\* one replace_links call taken alone
RewriterAlphabet ==
    {"http://", "x", " ", "?", "&", "invitationCode=", "invite=", "ref=", "INVITE=",
     "REF="}

RECURSIVE TextsUpTo(_)
\* every text of at most n tokens
TextsUpTo(n) ==
    IF n = 0 THEN {<<>>}
    ELSE LET shorter == TextsUpTo(n - 1)
         IN  shorter \cup {Append(t, a) : t \in {u \in shorter : Len(u) = n - 1},
                                          a \in RewriterAlphabet}

\* longer texts around one URL with one parameter: text before, a path, the
\* separator, the name, a value, and text or further parameters after
UrlTexts ==
    {pre \o <<"http://">> \o path \o <<sep, name>> \o val \o post :
        pre \in {<<>>, <<"x", " ">>},
        path \in {<<>>, <<"x">>, <<"invite=">>},
        sep \in {"?", "&"},
        name \in {"invitationCode=", "invite=", "ref=", "INVITE=", "REF="},
        val \in {<<>>, <<"x">>, <<"x", "x">>},
        post \in {<<>>, <<" ", "x">>, <<"&", "x">>, <<"&", "ref=", "x">>}}

\* one URL with one parameter, without surrounding text
OneUrl ==
    {<<"http://">> \o path \o <<sep, name>> \o val :
        path \in {<<>>, <<"x">>, <<"invite=">>},
        sep \in {"?", "&"},
        name \in {"invitationCode=", "invite=", "ref=", "INVITE=", "REF="},
        val \in {<<>>, <<"x">>}}

\* texts with two URLs of one parameter each, white space between them
TwoUrlTexts ==
    {u1 \o gap \o u2 :
        u1 \in OneUrl, u2 \in OneUrl, gap \in {<<" ">>, <<" ", "x", " ">>}}

InitRewrite ==
    /\ config = DefaultConfig
    /\ inbox = <<>>
    /\ rw \in {[NoRewrite EXCEPT !.text = t] :
                t \in TextsUpTo(MaxTextLen) \cup UrlTexts \cup TwoUrlTexts
                        \cup {NoneText}}
    /\ InitCommon

Rewrite ==
    /\ rw.pc = "idle"
    /\ LET r == replace_links(rw.text)
       IN  rw' = [rw EXCEPT !.pc = "done", !.out = r.text, !.count = r.count]
    /\ UNCHANGED <<config, call, routerVars, sideVars>>

\* replace_links called again on the text it returned
RewriteAgain ==
    /\ rw.pc = "done"
    /\ LET r == replace_links(rw.out)
       IN  rw' = [rw EXCEPT !.pc = "again", !.out2 = r.text, !.count2 = r.count]
    /\ UNCHANGED <<config, call, routerVars, sideVars>>

NextRewrite == Rewrite \/ RewriteAgain

SpecRewrite == InitRewrite /\ [][NextRewrite]_vars

----------------------------------------------------------------------------
(* Claims about the retry dispatcher, checked under SpecDispatch.          *)

\* every outcome in h[1..n] is a FloodWait
AllFlood(h, n) == \A i \in 1..n : h[i].exc = "FloodWait"

\* C1: the wrapped operation is invoked at most retry_attempts times per call,
\* whatever mix of outcomes it produces.
C1_AtMostMaxAttempts ==
    \A e \in Events :
        /\ call[e].invocations <= config.retry_attempts
        /\ call[e].invocations = Len(call[e].hist)

\* a call that used every attempt, on a mix of FloodWait and other errors
C1_Witness ==
    /\ config.retry_attempts >= 3
    /\ call[1].invocations = config.retry_attempts
    /\ \E i, j \in 1..Len(call[1].hist) :
          /\ call[1].hist[i].exc = "FloodWait"
          /\ call[1].hist[j].exc = "Exception"

\* the call saw k FloodWaits and then a success
FloodsThenSuccess(c) ==
    /\ Len(c.hist) >= 1
    /\ Last(c.hist).exc = "none"
    /\ AllFlood(c.hist, Len(c.hist) - 1)

C2_State ==
    \A e \in Events :
        FloodsThenSuccess(call[e]) =>
            /\ call[e].pc = "returned"
            /\ call[e].result = "Message"
            /\ call[e].invocations = Len(call[e].hist)
            /\ Len(call[e].waits) = Len(call[e].hist) - 1
            /\ \A i \in 1..Len(call[e].waits) :
                  /\ call[e].waits[i].cause = "FloodWait"
                  /\ call[e].waits[i].value = call[e].hist[i].value
            /\ (config.multiplier = 12 /\ Len(call[e].hist) = 3
                /\ call[e].hist[1].value = 10 /\ call[e].hist[2].value = 10)
                  => (call[e].waits[1].dur = 120 /\ call[e].waits[2].dur = 120)

\* C2: k FloodWaits (k < retry_attempts) followed by a success: the call returns
\* that result after exactly k+1 invocations and k waits, and does nothing more
\* afterwards (wait=10, multiplier 1.2: waits of 12 s and 12 s, 3 invocations).
C2_FloodsThenSuccess ==
    /\ []C2_State
    /\ [][\A e \in Events : FloodsThenSuccess(call[e]) => call'[e] = call[e]]_vars

C2_Witness ==
    /\ config.retry_attempts = 3
    /\ config.multiplier = 12
    /\ FloodsThenSuccess(call[1])
    /\ call[1].invocations = 3
    /\ call[1].waits = <<[cause |-> "FloodWait", value |-> 10, dur |-> 120],
                         [cause |-> "FloodWait", value |-> 10, dur |-> 120]>>
    /\ call[1].result = "Message"

\* the last outcome of func was one of the unrecoverable errors
EndedUnrecoverable(c) ==
    /\ Len(c.hist) >= 1
    /\ Last(c.hist).exc \in NonRecoverable

C3_State ==
    \A e \in Events :
        EndedUnrecoverable(call[e]) =>
            /\ call[e].pc = "returned"
            /\ call[e].result = "None"
            /\ call[e].invocations = Len(call[e].hist)
            /\ Len(call[e].waits) = Len(call[e].hist) - 1
            /\ (call[e].attempt = 0 =>
                    call[e].invocations = 1 /\ call[e].waits = <<>>)

\* C3: an unrecoverable error (MessageTooLong, MediaEmpty, FileReferenceExpired)
\* on any attempt ends the call with no result, no further invocation and no
\* wait after it; on the first attempt that is 1 invocation and 0 waits.
C3_NonRecoverableStops ==
    /\ []C3_State
    /\ [][\A e \in Events : EndedUnrecoverable(call[e]) => call'[e] = call[e]]_vars

\* once on the first attempt, once after an earlier wait
C3_Witness ==
    /\ EndedUnrecoverable(call[1])
    /\ call[1].attempt = 1
    /\ call[1].invocations = 2
    /\ Len(call[1].waits) = 1

C4_State ==
    \A e \in Events : \A i \in 1..Len(call[e].hist) :
        call[e].hist[i].exc = "Exception" =>
            IF i = config.retry_attempts
            THEN /\ call[e].pc = "raised"
                 /\ Len(call[e].waits) = i - 1
            ELSE /\ Len(call[e].waits) >= i
                 /\ call[e].waits[i] =
                        [cause |-> "Exception", value |-> 0, dur |-> 10 * Pow2(i - 1)]
                 /\ (i = Len(call[e].hist) =>
                        \/ call[e].pc = "waiting" /\ call[e].attempt = i - 1
                        \/ call[e].pc = "attempting" /\ call[e].attempt = i)

C5_FloodWaitCeiling ==
    \A e \in Events : \A i \in 1..Len(call[e].waits) :
        LET w == call[e].waits[i]
            asked == w.value * config.multiplier
        IN  w.cause = "FloodWait" =>
                /\ w.dur <= MaxWaitSeconds * 10
                /\ (asked <= MaxWaitSeconds * 10 => w.dur = asked)
                /\ (asked > MaxWaitSeconds * 10 => w.dur = MaxWaitSeconds * 10)

\* one sleep below the ceiling and one cut down to it, in the same call
C5_Witness ==
    \E i, j \in 1..Len(call[1].waits) :
        /\ call[1].waits[i].cause = "FloodWait"
        /\ call[1].waits[i].value * config.multiplier > MaxWaitSeconds * 10
        /\ call[1].waits[i].dur = MaxWaitSeconds * 10
        /\ call[1].waits[j].cause = "FloodWait"
        /\ call[1].waits[j].dur < MaxWaitSeconds * 10

\* func raised FloodWait on every one of the retry_attempts attempts
FloodOnEveryAttempt(c) ==
    /\ config.retry_attempts >= 1
    /\ Len(c.hist) = config.retry_attempts
    /\ AllFlood(c.hist, Len(c.hist))

C6_State ==
    \A e \in Events :
        FloodOnEveryAttempt(call[e]) =>
            /\ call[e].pc \in {"waiting", "returned"}
            /\ call[e].result = "None"
            /\ call[e].invocations = config.retry_attempts
            /\ Len(call[e].waits) = config.retry_attempts
            /\ Last(call[e].waits).cause = "FloodWait"

\* C6: FloodWait on every attempt: the call ends with no result and no
\* exception after exactly retry_attempts invocations, and has slept once
\* after each FloodWait, the one of the last attempt included.
C6_AllFloodExhausts ==
    /\ []C6_State
    /\ [][\A e \in Events :
            FloodOnEveryAttempt(call[e]) =>
                \/ call[e].pc = "waiting" /\ call'[e].pc = "returned"
                                          /\ call'[e].result = "None"
                                          /\ call'[e].waits = call[e].waits
                                          /\ call'[e].invocations = call[e].invocations
                \/ call[e].pc = "returned" /\ call'[e] = call[e]]_vars

C6_Witness ==
    /\ FloodOnEveryAttempt(call[1])
    /\ config.retry_attempts = 3
    /\ call[1].pc = "returned"
    /\ Len(call[1].waits) = 3

\* C26 as stated: no sleep of _handle_flood_wait lasts more than 300
\* seconds, whatever the number of attempts, the multiplier and the error
\* that func raised.
C26_EverySuspensionCapped ==
    \A e \in Events : \A i \in 1..Len(call[e].waits) :
        call[e].waits[i].dur <= MaxWaitSeconds * 10

\* C27: a _handle_flood_wait call changes nothing but its own progress:
\* processed_count, the message rows, the error rows and the channel mapping
\* are, while it runs and once it has returned or raised, what they were
\* when it was called.
C27_DispatcherFrame ==
    call[1].pc # "none" =>
        /\ processed_count = 0
        /\ messages_db = <<>>
        /\ errors_db = <<>>
        /\ config.mapping = DefaultConfig.mapping

\* a call that slept after a FloodWait and after a generic exception and
\* then raised, and nothing was written
C27_Witness ==
    /\ call[1].pc = "raised"
    /\ Len(call[1].waits) = 2
    /\ {call[1].waits[1].cause, call[1].waits[2].cause} = {"FloodWait", "Exception"}
    /\ processed_count = 0
    /\ messages_db = <<>>
    /\ errors_db = <<>>

----------------------------------------------------------------------------
(* Claims about the router, checked under Spec.                            *)

\* the events that have arrived
Arrived == {e \in Events : e \in DOMAIN inbox /\ ev[e].pc # "new"}

\* the channel mapping has no entry for the source of the message
Unmapped(m) == SourceChannel(m) \notin DOMAIN config.mapping

\* nothing was sent and no message row was written for event e
NoSendNoRow(e) ==
    /\ call[e] = NoCall
    /\ \A i \in 1..Len(sends) : sends[i].ev # e
    /\ \A i \in 1..Len(messages_db) : messages_db[i].source_message_id # e

C7_State ==
    \A e \in Arrived :
        Unmapped(inbox[e]) =>
            /\ ev[e].pc = "done"
            /\ ev[e].outcome = "dropped"
            /\ ~ev[e].delayed
            /\ NoSendNoRow(e)

\* C7: an event from a source with no entry in the channel mapping is Dropped:
\* no outbound call, no row in the messages or the errors table, no pre-send
\* delay, processed_count unchanged.
C7_UnmappedDropped ==
    /\ []C7_State
    /\ [][\A e \in DOMAIN inbox :
            (Unmapped(inbox[e]) /\ ev'[e] # ev[e]) =>
                /\ processed_count' = processed_count
                /\ messages_db' = messages_db
                /\ errors_db' = errors_db
                /\ notifications' = notifications
                /\ sends' = sends
                /\ call' = call]_vars

\* a document from the chat "zzz" was dropped, under a configuration that
\* delays and would have sent it
C7_Witness ==
    /\ 1 \in Arrived
    /\ inbox[1].chat.username = "zzz"
    /\ inbox[1].kind = "document"
    /\ config.message_delay > 0
    /\ ~config.content_filtering
    /\ ev[1].outcome = "dropped"

\* word occurs in text at some position, letter case aside
OccursIgnoringCase(word, text) ==
    \E p \in 1..Len(text) :
        /\ p + Len(word) - 1 <= Len(text)
        /\ \A k \in 1..Len(word) : LowerTok(text[p + k - 1]) = LowerTok(word[k])

\* the text or the caption of the message holds a configured blocked word
HasBlockedWord(m) ==
    \E i \in 1..Len(config.blocked_words) :
        \/ OccursIgnoringCase(config.blocked_words[i], m.text)
        \/ OccursIgnoringCase(config.blocked_words[i], m.caption)

\* C8: content filtering enabled, mapped source, a blocked word in the text or
\* the caption (compared case-insensitively): the event is Filtered and no
\* outbound call is made for it.
C8_BlockedWordFiltered ==
    \A e \in Arrived :
        (config.content_filtering /\ ~Unmapped(inbox[e]) /\ HasBlockedWord(inbox[e])) =>
            /\ ev[e].pc = "done"
            /\ ev[e].outcome = "filtered"
            /\ NoSendNoRow(e)

\* a photo whose caption holds the word in lower case, configured in upper
\* case, rejected for that word
C8_Witness ==
    /\ 1 \in Arrived
    /\ config.content_filtering
    /\ config.blocked_words = << <<"BAD">> >>
    /\ inbox[1].kind = "photo"
    /\ inbox[1].caption = <<"x", "bad">>
    /\ ev[1].outcome = "filtered"
    /\ ev[1].reason = "Contains blocked word"

----------------------------------------------------------------------------
(* Claims about the link rewriter, checked under SpecRewrite.              *)

ParamNames == {"invitationcode=", "invite=", "ref="}

\* position j of the text holds a ?/& separator followed by the name of one of
\* the three parameters (in any letter case) and preceded, with only URL
\* characters in between, by the start of a URL
IsParamOfUrl(t, j) ==
    /\ j + 1 <= Len(t)
    /\ t[j] \in {"?", "&"}
    /\ LowerTok(t[j + 1]) \in ParamNames
    /\ \E i \in 1..(j - 1) :
          /\ t[i] = "http://"
          /\ \A k \in (i + 1)..(j - 1) : t[k] # " "

\* C9: a text with no URL followed by ?/& and invitationCode, invite or ref,
\* an empty text and None all come back unchanged with count 0.
C9_NoMatchUnchanged ==
    (rw.pc = "done" /\ (rw.text = NoneText \/ \A j \in 1..Len(rw.text) :
                                                ~IsParamOfUrl(rw.text, j)))
        => (rw.out = rw.text /\ rw.count = 0)

\* a URL cut from its parameter by white space: no match, the text is kept
C9_Witness ==
    /\ rw.pc = "done"
    /\ rw.text = <<"http://", " ", "?", "ref=">>
    /\ rw.out = rw.text
    /\ rw.count = 0

\* the text has exactly one URL and, in it, exactly one parameter
OneUrlOneParam(t) ==
    /\ t # NoneText
    /\ Cardinality({i \in 1..Len(t) : t[i] = "http://"}) = 1
    /\ Cardinality({j \in 1..Len(t) : IsParamOfUrl(t, j)}) = 1
    /\ Cardinality({j \in 1..Len(t) : LowerTok(t[j]) \in ParamNames}) = 1

\* the last token of the value of the parameter at j: the value runs up to the
\* next "&", white space, bracket or the end of the text
ValueLast(t, j) ==
    CHOOSE e \in (j + 1)..Len(t) :
        /\ \A k \in (j + 2)..e : t[k] \notin {" ", "&"}
        /\ (e = Len(t) \/ t[e + 1] \in {" ", "&"})

\* C10: a text with exactly one URL with exactly one matching parameter: only
\* the value of the parameter is replaced, by the configured code; the URL
\* prefix, the separator, the parameter (its name) and the surrounding text
\* stay, and the count is 1.
C10_OneParamOnlyValueReplaced ==
    (rw.pc = "done" /\ OneUrlOneParam(rw.text)) =>
        LET t == rw.text
            j == CHOOSE k \in 1..Len(t) : IsParamOfUrl(t, k)
            e == ValueLast(t, j)
        IN  /\ rw.count = 1
            /\ Len(rw.out) = j + 2 + (Len(t) - e)
            /\ SubSeq(rw.out, 1, j) = SubSeq(t, 1, j)
            /\ LowerTok(rw.out[j + 1]) = LowerTok(t[j + 1])
            /\ rw.out[j + 2] = InvitationCode
            /\ SubSeq(rw.out, j + 3, Len(rw.out)) = SubSeq(t, e + 1, Len(t))

\* the pattern for this name matches from the scheme at position i
HasMatch(t, name, i) ==
    /\ t[i] = "http://"
    /\ \E j \in (i + 1)..(Len(t) - 1) :
          /\ t[j] \in {"?", "&"}
          /\ LowerTok(t[j + 1]) = LowerTok(name)
          /\ \A k \in (i + 1)..j : t[k] # " "

\* the last position of the match that starts at i: the nearest separator
\* with the name, then the longest value
SpanEnd(t, name, i) ==
    LET j == CHOOSE j \in (i + 1)..(Len(t) - 1) :
                 /\ t[j] \in {"?", "&"} /\ LowerTok(t[j + 1]) = LowerTok(name)
                 /\ \A k \in (i + 1)..(j - 1) :
                        ~(t[k] \in {"?", "&"} /\ LowerTok(t[k + 1]) = LowerTok(name))
    IN  CHOOSE e \in (j + 1)..Len(t) :
            /\ \A k \in (j + 2)..e : t[k] \notin {" ", "&"}
            /\ (e = Len(t) \/ t[e + 1] \in {" ", "&"})

\* the substitutions one rule performs on a text: its matches from left to
\* right, none starting inside an earlier one
RECURSIVE Substitutions(_, _, _)
Substitutions(t, name, i) ==
    IF i > Len(t) THEN 0
    ELSE IF HasMatch(t, name, i)
         THEN 1 + Substitutions(t, name, SpanEnd(t, name, i) + 1)
         ELSE Substitutions(t, name, i + 1)

\* the substitutions of all rules, each on the text the rules before it left
SubstitutionsOfAllRules(t) ==
    LET t1 == PatternSub(t, PatternNames[1], 1).text
        t2 == PatternSub(t1, PatternNames[2], 1).text
    IN  Substitutions(t, PatternNames[1], 1) + Substitutions(t1, PatternNames[2], 1)
            + Substitutions(t2, PatternNames[3], 1)

\* the parameters of the text: separators followed by one of the three names
ParamsOf(t) == {j \in 1..Len(t) : IsParamOfUrl(t, j)}

\* the text has an invite= parameter and a ref= parameter, each the only
\* parameter of its own URL, the two URLs parted by white space
InviteAndRefOnTwoUrls(t) ==
    /\ t # NoneText
    /\ Cardinality({i \in 1..Len(t) : t[i] = "http://"}) = 2
    /\ Cardinality({j \in 1..Len(t) : LowerTok(t[j]) \in ParamNames}) = 2
    /\ \E j1, j2 \in ParamsOf(t) :
          /\ {t[j1 + 1], t[j2 + 1]} = {"invite=", "ref="}
          /\ j1 < j2
          /\ \E s \in (j1 + 2)..(j2 - 1) :
                /\ t[s] = "http://"
                /\ \E w \in (j1 + 2)..(s - 1) : t[w] = " "
                /\ \A w \in (s + 1)..j2 : t[w] # " "

\* C11: a text with an invite= parameter and a ref= parameter on two distinct
\* URLs comes back with both values replaced by the configured code and with
\* count 2; for every text the count returned is the number of substitutions
\* performed by the three rules together.
C11_CountIsAllSubstitutions ==
    /\ (rw.pc = "done" /\ InviteAndRefOnTwoUrls(rw.text)) =>
          /\ rw.count = 2
          /\ Cardinality(ParamsOf(rw.out)) = 2
          /\ \A j \in ParamsOf(rw.out) :
                /\ j + 2 <= Len(rw.out)
                /\ rw.out[j + 2] = InvitationCode
                /\ (j + 2 = Len(rw.out) \/ rw.out[j + 3] = " ")
          /\ Cardinality({j \in 1..Len(rw.out) : rw.out[j] = InvitationCode}) = 2
    /\ (rw.pc = "done" /\ rw.text # NoneText) =>
          rw.count = SubstitutionsOfAllRules(rw.text)

\* an invite= value on the first URL and a ref= value on the second
C11_Witness ==
    /\ rw.pc = "done"
    /\ rw.text = <<"http://", "?", "invite=", "x", " ", "http://", "x", "&", "ref=", "x">>
    /\ rw.out = <<"http://", "?", "invite=", "CODE", " ",
                  "http://", "x", "&", "ref=", "CODE">>
    /\ rw.count = 2

\* the names the rule for the given name writes in its substitutions on a
\* text, from position i on
RECURSIVE NamesWritten(_, _, _)
NamesWritten(t, name, i) ==
    IF i > Len(t) THEN {}
    ELSE LET m == MatchAt(t, name, i)
         IN  IF m.sep = 0 THEN NamesWritten(t, name, i + 1)
             ELSE {_extract_param_name(SubSeq(t, i, m.end))}
                      \cup NamesWritten(t, name, m.end + 1)

\* C25: in every substitution the parameter name written is the alias of the
\* rule that matched: the first rule writes invitationCode, the second
\* invite, the third ref, whatever the letter case of the name in the text
\* and whatever else the matched URL holds.
C25_NameOfMatchingRule ==
    (rw.pc = "done" /\ rw.text # NoneText) =>
        LET t1 == PatternSub(rw.text, PatternNames[1], 1).text
            t2 == PatternSub(t1, PatternNames[2], 1).text
        IN  /\ NamesWritten(rw.text, PatternNames[1], 1) \subseteq {PatternNames[1]}
            /\ NamesWritten(t1, PatternNames[2], 1) \subseteq {PatternNames[2]}
            /\ NamesWritten(t2, PatternNames[3], 1) \subseteq {PatternNames[3]}

\* the parameters of the text whose value is not the configured code
RawParams(t) ==
    {j \in ParamsOf(t) :
        \/ j + 2 > Len(t)
        \/ t[j + 2] # InvitationCode
        \/ (j + 3 <= Len(t) /\ t[j + 3] \notin {" ", "&"})}

\* C12 as stated: a second call on a returned text with no parameter left
\* whose value differs from the configured code returns that text unchanged
\* with count 0.
C12_SecondPassCountZero ==
    (rw.pc = "again" /\ rw.text # NoneText /\ RawParams(rw.out) = {}) =>
        (rw.out2 = rw.out /\ rw.count2 = 0)

----------------------------------------------------------------------------
(* More claims about the routing of one event, checked under Spec.         *)

\* the retry loop of event e has ended without a result: on an error it does
\* not retry, or with a FloodWait on every attempt
TerminalFailure(e) ==
    /\ ev[e].pc = "done"
    /\ call[e].pc = "returned"
    /\ call[e].result = "None"
    /\ (EndedUnrecoverable(call[e]) \/ FloodOnEveryAttempt(call[e]))

\* C14: when the retry loop ends in a terminal failure (an error it does not
\* retry, or a FloodWait on every attempt) the router writes an error row for
\* the event and sends an error notification with context "message
\* processing".
C14_TerminalFailureRecorded ==
    \A e \in Arrived :
        TerminalFailure(e) =>
            /\ \E i \in 1..Len(errors_db) :
                  /\ errors_db[i].error_type = "message_processing"
                  /\ errors_db[i].channel = SourceChannel(inbox[e])
            /\ \E i \in 1..Len(notifications) :
                  /\ notifications[i].ev = e
                  /\ notifications[i].context = "message processing"

\* the text of the message without the white space at its two ends is
\* shorter, in characters, than filters.min_message_length
TooShort(m) ==
    LET t == TextOf(m)
        inner == {i \in 1..Len(t) : t[i] # " "}
        first == CHOOSE i \in inner : \A k \in inner : i <= k
        last == CHOOSE i \in inner : \A k \in inner : k <= i
        len == IF inner = {} THEN 0 ELSE StrLen(SubSeq(t, first, last))
    IN  len < config.min_message_length

\* the message is a document whose file name has an extension that, in lower
\* case, is not in the configured allow-list
ExtensionNotAllowed(m) ==
    /\ m.kind = "document"
    /\ config.allowed_file_types # {}
    /\ Suffix(m.file_name) # ""
    /\ LowerExt(Suffix(m.file_name)) \notin config.allowed_file_types

\* the size the filter reads for the message is over filters.max_file_size_mb
SizeCheckFails(m) ==
    /\ m.kind \in {"document", "photo", "video"}
    /\ m.file_size > config.max_file_size_mb * 1024 * 1024

\* the reason of the first check that fails, in the order length, blocked
\* word, file extension, size; "" when none fails
FirstFailingCheck(m) ==
    IF TooShort(m) THEN "Message too short"
    ELSE IF HasBlockedWord(m) THEN "Contains blocked word"
    ELSE IF ExtensionNotAllowed(m) THEN "File type not allowed"
    ELSE IF SizeCheckFails(m) THEN "File too large"
    ELSE ""

\* C17: with content filtering enabled the checks run in the order minimum
\* length, blocked word, file extension, maximum size, and a mapped event is
\* Filtered with the reason of the first check that fails (too short and a
\* blocked word: "Message too short"); with content filtering disabled no
\* event is Filtered.
C17_FirstFailingCheckReported ==
    \A e \in Arrived :
        ~Unmapped(inbox[e]) =>
            IF config.content_filtering /\ FirstFailingCheck(inbox[e]) # ""
            THEN /\ ev[e].outcome = "filtered"
                 /\ ev[e].reason = FirstFailingCheck(inbox[e])
            ELSE ev[e].outcome # "filtered"

\* a caption too short once stripped that also holds a blocked word
C17_Witness ==
    /\ 1 \in Arrived
    /\ config.content_filtering
    /\ config.min_message_length = 5
    /\ inbox[1].caption = <<" ", "x", "bad", " ">>
    /\ HasBlockedWord(inbox[1])
    /\ ev[1].outcome = "filtered"
    /\ ev[1].reason = "Message too short"

\* C18: with content filtering enabled, a mapped event with an attachment of
\* any kind that has a size (document, photo, video, audio, voice) larger than
\* the configured maximum is Filtered, and no outbound call is made for it.
C18_OversizedAttachmentFiltered ==
    \A e \in Arrived :
        (/\ config.content_filtering
         /\ ~Unmapped(inbox[e])
         /\ inbox[e].kind \in SizedKinds
         /\ inbox[e].file_size > config.max_file_size_mb * 1024 * 1024) =>
            /\ ev[e].pc = "done"
            /\ ev[e].outcome = "filtered"
            /\ NoSendNoRow(e)

\* the event was rejected by the file extension check
RejectedForExtension(e) ==
    ev[e].outcome = "filtered" /\ ev[e].reason = "File type not allowed"

\* C19: the file extension check rejects an event only when an allow-list is
\* configured, the event carries a document, the file name of the document
\* has an extension, and that extension in lower case is not in the list; a
\* document without extension, an empty allow-list and an event that is not
\* a document always pass this check.
C19_ExtensionCheck ==
    \A e \in Arrived :
        LET m == inbox[e]
            ext == Suffix(m.file_name)
        IN  /\ RejectedForExtension(e) =>
                  /\ config.allowed_file_types # {}
                  /\ m.kind = "document"
                  /\ ext # ""
                  /\ LowerExt(ext) \notin config.allowed_file_types
            /\ (m.kind # "document" \/ ext = "" \/ config.allowed_file_types = {}
                    \/ LowerExt(ext) \in config.allowed_file_types)
                  => ~RejectedForExtension(e)
            /\ (/\ config.content_filtering /\ ~Unmapped(m)
                 /\ ~TooShort(m) /\ ~HasBlockedWord(m)
                 /\ config.allowed_file_types # {} /\ m.kind = "document"
                 /\ ext # "" /\ LowerExt(ext) \notin config.allowed_file_types)
                  => RejectedForExtension(e)

\* doc.exe is rejected under the allow-list {.pdf}
C19_Witness ==
    /\ 1 \in Arrived
    /\ config.allowed_file_types = {".pdf"}
    /\ inbox[1].kind = "document"
    /\ inbox[1].file_name = "doc.exe"
    /\ RejectedForExtension(1)

\* replacement.replace_all_files is set, the message carries a document, an
\* audio or a voice, and the replacement file exists
SubstitutionApplies(m) ==
    /\ config.replace_all_files
    /\ m.kind \in {"document", "audio", "voice"}
    /\ config.replacement_exists

\* the client method that sends content of each kind as it is
OwnMethod ==
    {<<"photo", "send_photo">>, <<"video", "send_video">>,
     <<"animation", "send_animation">>, <<"document", "send_document">>,
     <<"audio", "send_audio">>, <<"voice", "send_voice">>,
     <<"sticker", "send_sticker">>, <<"poll", "send_poll">>,
     <<"location", "send_location">>, <<"contact", "send_contact">>,
     <<"none", "send_message">>}

\* C20: the outbound call of an event is send_document of the replacement
\* file, with the rewritten text as caption, exactly when replace_all_files
\* is set, the event carries a document, an audio or a voice, and the
\* replacement file exists; in every other case the original content is
\* sent, with the method of its own kind.
C20_SubstitutionExactlyWhen ==
    \A i \in 1..Len(sends) :
        LET m == inbox[sends[i].ev]
        IN  IF SubstitutionApplies(m)
            THEN /\ sends[i].name = "send_document"
                 /\ sends[i].payload = "replacement"
                 /\ sends[i].text = replace_links(TextOf(m)).text
            ELSE /\ sends[i].payload \in {"original", "text"}
                 /\ <<m.kind, sends[i].name>> \in OwnMethod
                 /\ sends[i].payload = "original" <=> m.kind \in MediaKinds

\* a voice message with a link in its caption, replaced by the file
C20_Witness ==
    /\ Len(sends) >= 1
    /\ config.replace_all_files /\ config.replacement_exists
    /\ inbox[1].kind = "voice"
    /\ inbox[1].caption = <<"http://", "?", "INVITE=", "x">>
    /\ sends[1].name = "send_document"
    /\ sends[1].payload = "replacement"
    /\ sends[1].text = <<"http://", "?", "invitationCode=", "CODE">>

\* the send calls made for event e that returned a message
SuccessfulSends(e) == {i \in 1..Len(sends) : sends[i].ev = e /\ sends[i].ok}

\* the message rows written for event e
MessageRows(e) ==
    {i \in 1..Len(messages_db) : messages_db[i].source_message_id = e}

\* C16: an inbound event gives at most one successful outbound send and at
\* most one message row; the row is written exactly when the send returned a
\* message and the database is enabled.
C16_AtMostOneSendOneRow ==
    \A e \in Arrived :
        /\ Cardinality(SuccessfulSends(e)) <= 1
        /\ Cardinality(MessageRows(e)) <= 1
        /\ (MessageRows(e) # {}) <=>
               (SuccessfulSends(e) # {} /\ config.database_enabled)

\* a send that succeeds at the second attempt, logged once
C16_Witness ==
    /\ 1 \in Arrived
    /\ ev[1].pc = "done"
    /\ config.database_enabled
    /\ Len(sends) = 2
    /\ ~sends[1].ok /\ sends[2].ok
    /\ Cardinality(MessageRows(1)) = 1
    /\ messages_db[1].target_message_id = 2

\* the routing of event e has reached _send_processed_message
ReachedSend(e) == ev[e].pc = "sending" \/ ev[e].outcome \in {"processed", "error"}

\* the different outbound operations among the send calls made for event e
OperationsOf(e) ==
    {<<sends[i].name, sends[i].chat_id, sends[i].payload, sends[i].text>> :
        i \in {k \in 1..Len(sends) : sends[k].ev = e}}

\* C21: when the replacement file is not substituted, an event with content
\* is given exactly one outbound operation, the one of its content kind
\* (photo, video, animation, document, audio, voice, sticker, poll, location,
\* contact, otherwise a text message); an event with no such content and an
\* empty text gives no outbound call and no message row.
C21_OneOperationByKind ==
    \A e \in Arrived :
        LET m == inbox[e]
        IN  (ReachedSend(e) /\ ~SubstitutionApplies(m)) =>
                IF m.kind \notin MediaKinds /\ TextOf(m) = <<>>
                THEN /\ ev[e].pc = "done"
                     /\ NoSendNoRow(e)
                ELSE /\ call[e] # NoCall
                     /\ <<m.kind, ev[e].op.name>> \in OwnMethod
                     /\ OperationsOf(e) \subseteq
                            {<<ev[e].op.name, ev[e].target, ev[e].op.payload,
                               ev[e].op.text>>}
                     /\ (ev[e].pc = "done" /\ config.retry_attempts >= 1)
                            => Cardinality(OperationsOf(e)) = 1

\* a sticker is sent with send_sticker, once
C21_Witness ==
    /\ 1 \in Arrived
    /\ ev[1].pc = "done"
    /\ inbox[1].kind = "sticker"
    /\ Len(sends) = 1
    /\ sends[1].name = "send_sticker"
    /\ sends[1].ok

\* C22: a service message is kept out of the send path of process_message:
\* no outbound call is made for it, no pre-send delay is taken, no message
\* row is written and processed_count is not incremented.
C22_ServiceExcluded ==
    \A e \in Arrived :
        inbox[e].kind = "service" =>
            /\ ev[e].pc = "done"
            /\ ev[e].outcome \in {"dropped", "filtered", "service"}
            /\ ~ev[e].delayed
            /\ NoSendNoRow(e)
            /\ processed_count =
                  Cardinality({d \in Arrived \ {e} : ev[d].outcome = "processed"})

\* a service message from a mapped chat, with a pre-send delay configured
C22_Witness ==
    /\ 1 \in Arrived
    /\ inbox[1].kind = "service"
    /\ ~Unmapped(inbox[1])
    /\ config.message_delay > 0
    /\ ev[1].outcome = "service"
    /\ processed_count = 0
    /\ sends = <<>>

\* the step of process_message at which the routing of message m ends when
\* it ends before the pre-send delay; "send" when it goes on to the delay
StepEnding(m) ==
    IF Unmapped(m) THEN "dropped"
    ELSE IF ~should_process_message(m, config).ok THEN "filtered"
    ELSE IF m.kind = "service" THEN "service"
    ELSE "send"

\* the indices of the send calls made for event e
SendsOf(e) == {i \in 1..Len(sends) : sends[i].ev = e}

\* C24: the steps of process_message run in a fixed order: target
\* resolution, filter, service test, pre-send delay, rewrite, dispatch,
\* logging.  An event ends at the first of the three tests that rejects it;
\* the delay is taken only by events that are mapped, pass the filter and are
\* not service messages; while the delay lasts nothing is rewritten, called
\* or logged for the event; every call made for it comes after its delay and
\* carries the rewritten text; its message row comes after a call that
\* returned a message.
C24_FixedOrder ==
    \A e \in Arrived :
        LET m == inbox[e]
        IN  /\ ev[e].pc # "new" =>
                  IF StepEnding(m) = "send"
                  THEN /\ ev[e].outcome \in {"none", "processed", "error"}
                       /\ ev[e].delayed = (config.message_delay > 0)
                  ELSE /\ ev[e].pc = "done"
                       /\ ev[e].outcome = StepEnding(m)
                       /\ ~ev[e].delayed
            /\ ev[e].pc = "delay" =>
                  /\ ev[e].op = NoOp
                  /\ call[e] = NoCall
                  /\ NoSendNoRow(e)
            /\ (call[e] # NoCall \/ SendsOf(e) # {}) =>
                  /\ ev[e].pc \in {"sending", "done"}
                  /\ ev[e].op.text = replace_links(TextOf(m)).text
                  /\ \A i \in SendsOf(e) : sends[i].text = ev[e].op.text
            /\ MessageRows(e) # {} =>
                  /\ ev[e].pc = "done"
                  /\ \E i \in SendsOf(e) : sends[i].ok

\* an event was delayed, then sent with its link rewritten, then logged
C24_Witness ==
    /\ 1 \in Arrived
    /\ config.message_delay > 0
    /\ ev[1].delayed
    /\ ev[1].pc = "done"
    /\ replace_links(TextOf(inbox[1])).count > 0
    /\ Len(sends) = 1
    /\ sends[1].text = replace_links(TextOf(inbox[1])).text
    /\ Cardinality(MessageRows(1)) = 1

\* event e is one that process_message counts: mapped, accepted by the
\* filter, not a service message, and its send stage raised nothing
Counted(e) ==
    /\ StepEnding(inbox[e]) = "send"
    /\ ev[e].pc = "done"
    /\ call[e].pc # "raised"

\* C31: processed_count rises by exactly one for each event that is mapped,
\* passes the filter, is not a service message and whose send stage raised
\* no exception, also when the send returned nothing (an unrecoverable
\* error, a FloodWait on every attempt, no content to send); every other
\* event leaves it alone, and it never decreases.
C31_CountsEventsThatDidNotRaise ==
    /\ [](processed_count = Cardinality({e \in Arrived : Counted(e)}))
    /\ [][/\ processed_count' >= processed_count
          /\ processed_count' <= processed_count + 1]_vars

\* an event whose send ended on an unrecoverable error is counted, with no
\* message row and no error row
C31_Witness ==
    /\ 1 \in Arrived
    /\ ev[1].pc = "done"
    /\ EndedUnrecoverable(call[1])
    /\ processed_count = 1
    /\ messages_db = <<>>
    /\ errors_db = <<>>

\* the last attempt the configuration allows was made for event e and func
\* raised an error that is neither FloodWait nor one of the unrecoverable ones
OtherErrorOnFinalAttempt(e) ==
    /\ ev[e].pc = "done"
    /\ config.retry_attempts >= 1
    /\ Len(call[e].hist) = config.retry_attempts
    /\ Last(call[e].hist).exc = "Exception"

\* the error rows and the error notifications of event e
ErrorRows(e) ==
    {i \in 1..Len(errors_db) :
        /\ errors_db[i].error_type = "message_processing"
        /\ errors_db[i].channel = SourceChannel(inbox[e])}
ErrorNotifications(e) ==
    {i \in 1..Len(notifications) :
        /\ notifications[i].ev = e
        /\ notifications[i].title = "Bot Error"
        /\ notifications[i].context = "message processing"}

\* what C32 says of the call, the message rows and the counter
RaisedAndNotCounted(e) ==
    /\ call[e].pc = "raised"
    /\ ev[e].outcome = "error"
    /\ MessageRows(e) = {}
    /\ processed_count =
          Cardinality({d \in Arrived \ {e} : ev[d].outcome = "processed"})

----------------------------------------------------------------------------
(* Claims about several events in a row, checked under SpecSeveral.        *)

\* C13: events are routed one at a time: the routing of an event does not
\* begin before the routing of every earlier event has finished, also while
\* an earlier event is suspended in its pre-send delay or in a backoff wait,
\* and the outbound sends occur in the order of arrival of their events.
C13_OneAtATime ==
    /\ \A e1, e2 \in Events :
          (e1 < e2 /\ ev[e2].pc # "new") => ev[e1].pc = "done"
    /\ \A i, j \in 1..Len(sends) : i < j => sends[i].ev <= sends[j].ev

\* the outcome of routing event e, from its own message, the configuration
\* and the end of its own retry loop
OwnOutcome(e) ==
    IF Unmapped(inbox[e]) THEN "dropped"
    ELSE IF ~should_process_message(inbox[e], config).ok THEN "filtered"
    ELSE IF inbox[e].kind = "service" THEN "service"
    ELSE IF call[e].pc = "raised" THEN "error"
    ELSE "processed"

\* event e was routed as an event arriving alone is: outcome, target, call
\* and message row are those of its own message
RoutedOnItsOwn(e) ==
    /\ ev[e].outcome = OwnOutcome(e)
    /\ ev[e].outcome \in {"dropped", "filtered", "service"} => NoSendNoRow(e)
    /\ ev[e].outcome \in {"processed", "error"} =>
          /\ ev[e].target = MappingGet(config, SourceChannel(inbox[e]))
          /\ ev[e].op = ChooseOp(inbox[e], config)
          /\ \A i \in 1..Len(sends) :
                sends[i].ev = e =>
                    /\ sends[i].chat_id = ev[e].target
                    /\ sends[i].name = ev[e].op.name
                    /\ sends[i].text = ev[e].op.text
          /\ Cardinality({i \in 1..Len(messages_db) :
                             messages_db[i].source_message_id = e})
                = IF call[e].result = "Message" /\ config.database_enabled
                  THEN 1 ELSE 0

\* C15: routing one event never aborts the routing of later ones: whether an
\* event is dropped, filtered, sent, left unsent or ends in an exception of
\* the retry loop, process_message returns with that outcome and raises
\* nothing, and every event, the later ones included, is routed as it would
\* be had the others been sent.
C15_LaterEventsUnaffected ==
    \A e \in Arrived :
        ev[e].pc = "done" =>
            /\ ev[e].outcome \in {"dropped", "filtered", "service", "processed",
                                  "error"}
            /\ RoutedOnItsOwn(e)

\* the first event ended in an exception, which was logged; the second, a
\* text, was then sent and logged as a message
C15_Witness ==
    /\ Len(inbox) >= 2
    /\ ev[1].pc = "done" /\ ev[1].outcome = "error"
    /\ Len(errors_db) = 1
    /\ ev[2].pc = "done" /\ ev[2].outcome = "processed"
    /\ call[2].result = "Message"
    /\ \E i \in 1..Len(messages_db) : messages_db[i].source_message_id = 2
    /\ processed_count = 1

----------------------------------------------------------------------------
(* Claims about the service handler, checked under SpecService.            *)

\* the fixed notification text of each kind of service message
FixedText ==
    {<<"group_call_started", "Voice Chat Started">>,
     <<"group_call_ended", "Voice Chat Ended">>,
     <<"video_chat_started", "Video Chat Started">>,
     <<"video_chat_ended", "Video Chat Ended">>,
     <<"live_stream_started", "Live Stream Started">>,
     <<"live_stream_ended", "Live Stream Ended">>}

\* C23: for a service message of one of the six kinds from a mapped chat the
\* service handler makes exactly one send_message call, with the fixed text
\* of that kind, to the mapped target, and writes one message row of type
\* "service"; for a chat that is not mapped and for a message that is not a
\* service message it sends nothing and writes nothing.
C23_ServiceNotification ==
    \A e \in 1..Len(inbox) :
        svc[e] = "done" =>
            LET m == inbox[e]
                mine == {i \in 1..Len(sends) : sends[i].ev = e}
                rows == {i \in 1..Len(messages_db) :
                            messages_db[i].source_message_id = e}
            IN  IF m.kind = "service" /\ m.service.signal \in ServiceAttrs
                   /\ ~Unmapped(m)
                THEN /\ Cardinality(mine) = 1
                     /\ \A i \in mine :
                           /\ sends[i].name = "send_message"
                           /\ sends[i].chat_id = config.mapping[SourceChannel(m)]
                           /\ Len(sends[i].text) = 1
                           /\ <<m.service.signal, sends[i].text[1]>> \in FixedText
                     /\ Cardinality(rows) = 1
                     /\ \A i \in rows : messages_db[i].message_type = "service"
                ELSE IF m.kind # "service" \/ Unmapped(m)
                THEN mine = {} /\ rows = {}
                ELSE TRUE

----------------------------------------------------------------------------
(* Claims about the orchestrator and its tasks, checked under SpecBot.     *)

\* task t, asleep, is woken in this step: it takes a turn of its loop or
\* leaves its sleep
Wakes(t) ==
    /\ bot.task[t] = "sleeping"
    /\ bot'.pc = bot.pc
    /\ (bot'.wakes[t] # bot.wakes[t] \/ bot'.task[t] # bot.task[t])

\* the tasks in ts end at their first wake after shutdown has set the flags
StopOnNextWake(ts) ==
    \A t \in ts : (bot.pc = "shutting" /\ ~bot.running /\ Wakes(t))
                      => bot'.task[t] = "ended"

\* C28 as stated: once an interrupt has led to shutdown, each background
\* task (voice polling, statistics, daily cleanup) tests a stop flag when it
\* next wakes and ends; none goes on looping.
C28_TasksStopOnNextWake == [][StopOnNextWake(Tasks)]_vars

\* C30: the automatic restart is bounded: restart_count never exceeds
\* max_restarts (5); every restart_clients call made below the limit raises
\* it by exactly one and stops and starts the clients once; a call made once
\* the limit is reached returns False, leaves the count alone and neither
\* stops nor starts a client.
C30_RestartsBounded ==
    /\ bot.restart_count <= max_restarts
    /\ bot.restart_count =
          Cardinality({i \in 1..Len(bot.restarts) :
                          bot.restarts[i].before < max_restarts})
    /\ \A i \in 1..Len(bot.restarts) :
          LET r == bot.restarts[i]
          IN  /\ r.before = Min(i - 1, max_restarts)
              /\ IF r.before < max_restarts
                 THEN /\ r.after = r.before + 1
                      /\ r.stops = 1
                      /\ r.starts = 1
                 ELSE /\ r.after = r.before
                      /\ r.result = FALSE
                      /\ r.stops = 0
                      /\ r.starts = 0

\* five restarts succeeded, each followed by a start that failed; the sixth
\* call is refused
C30_Witness ==
    /\ Len(bot.restarts) = 6
    /\ bot.restart_count = max_restarts
    /\ bot.restarts[6].before = max_restarts
    /\ ~bot.restarts[6].result
    /\ bot.depth = 6
    /\ bot.pc = "shutting"

\* the start calls made so far: the one of main and one for each
\* restart_clients call that returned True
StartCalls ==
    IF bot.pc = "ready" THEN 0
    ELSE 1 + Cardinality({i \in 1..Len(bot.restarts) : bot.restarts[i].result})

\* C34: every call of start, however it ends (the await of the gathered
\* tasks is left, a runtime error with auto-restart off, refused or failed,
\* or a restart followed by a nested start), is followed by shutdown: each
\* start call either has not returned yet or has run shutdown, and once all
\* have returned there were as many shutdowns as start calls.  From the
\* moment shutdown has set its flags running and monitoring are false, and a
\* further shutdown leaves them false.
C34_StartFollowedByShutdown ==
    /\ [](/\ bot.shutdowns + bot.depth = StartCalls
          /\ bot.pc = "stopped" => (bot.depth = 0 /\ bot.shutdowns = StartCalls)
          /\ bot.pc \in {"shutting", "stopped"} =>
                (~bot.running /\ ~bot.monitoring))
    /\ [][bot'.shutdowns # bot.shutdowns =>
             /\ bot'.shutdowns = bot.shutdowns + 1
             /\ bot'.depth = bot.depth - 1
             /\ ~bot'.running /\ ~bot'.monitoring
             /\ bot.shutdowns >= 1 =>
                   (bot'.running = bot.running /\ bot'.monitoring = bot.monitoring)]_vars

\* two restarts succeeded, the third start ran the voice monitor and was
\* interrupted; the three start calls have each run shutdown
C34_Witness ==
    /\ bot.pc = "stopped"
    /\ Len(bot.restarts) = 2
    /\ bot.restarts[1].result /\ bot.restarts[2].result
    /\ bot.wakes["voice"] >= 1
    /\ bot.shutdowns = 3
    /\ ~bot.running
    /\ ~bot.monitoring

----------------------------------------------------------------------------
(* Claims about the tasks sharing the event loop, checked under SpecShared. *)

\* C29: processed_count and the channel mapping are written by
\* process_message only, however its steps interleave with the other tasks:
\* the mapping never changes; the counter changes only in a step that ends
\* the routing of an event as processed, and then by one; no step of the
\* statistics task, the cleanup task, the voice monitor, the service handler
\* or the orchestrator changes it.
C29_OnlyRouterWritesShared ==
    [][/\ config'.mapping = config.mapping
       /\ processed_count' # processed_count =>
             /\ processed_count' = processed_count + 1
             /\ \E e \in Events : /\ ev[e].outcome # "processed"
                                  /\ ev'[e].outcome = "processed"
       /\ (bot' # bot \/ svc' # svc) => processed_count' = processed_count]_vars

\* an event was routed and counted while the three tasks took turns, one of
\* them after the event was counted, and the service handler saw the event
C29_Witness ==
    /\ processed_count = 1
    /\ ev[1].outcome = "processed"
    /\ svc[1] = "done"
    /\ bot.wakes["stats"] = MaxWakes
    /\ bot.wakes["cleanup"] >= 1
    /\ bot.wakes["voice"] >= 1
    /\ bot.active_calls # {}

----------------------------------------------------------------------------
(* Claims about the voice monitor, checked under SpecVoice.                *)

VoiceStarted == <<"Voice Chat Started (detected)">>
VoiceEnded == <<"Voice Chat Ended (detected)">>

\* the notifications of the voice monitor for source s among the send calls
\* snds, in the order they were made
VoiceNotes(snds, s) ==
    SelectSeq(snds, LAMBDA r : r.ev = 0 /\ r.chat_id = config.mapping[s])

\* started, ended, started, ... from the first one on
Alternates(q) ==
    \A i \in 1..Len(q) :
        q[i].text = IF i % 2 = 1 THEN VoiceStarted ELSE VoiceEnded

\* what the poll made in this step does for source s: a start is notified
\* exactly when the chat is found active and is not in active_calls, an end
\* exactly when it is found inactive and is in active_calls, nothing otherwise
PollNotifies(s) ==
    LET old == VoiceNotes(sends, s)
        new == VoiceNotes(sends', s)
        was_in == ChatId(s) \in bot.active_calls
        found == bot'.seen[s]
    IN  IF found = "active" /\ ~was_in
            THEN Len(new) = Len(old) + 1 /\ Last(new).text = VoiceStarted
        ELSE IF found = "inactive" /\ was_in
            THEN Len(new) = Len(old) + 1 /\ Last(new).text = VoiceEnded
        ELSE new = old

=============================================================================
